---- MODULE Spec2Model ----
(***************************************************************************)
(* kubevirt-migrator: the init / migrate / check commands as one state     *)
(* machine over the state of the two clusters.  One process runs one       *)
(* command at a time (pc is its position); every external command the tool *)
(* issues may fail, and the clusters change between two commands           *)
(* (VM status convergence, job completion).                                *)
(***************************************************************************)
EXTENDS Integers, Sequences, FiniteSets, TLC

\* ------------------------------------------------------------------ bounds
MaxRuns ==
    2
MaxFaults ==
    1
MaxPolls ==
    2

VARIABLES
    cmd,        \* command being run: "none", "init", "migrate", "migrateV1", "check"
    pc,         \* position inside the command
    result,     \* what the last finished command returned: "none", "ok", "err"
    runs,       \* commands started so far
    faults,     \* things that went wrong from outside: external commands that
                \* failed for an environmental reason, malformed command lines
    polls,      \* sleeps of the running WaitForVMStatus loop
    log,        \* events of the running command, in order
    nl,         \* the command runner's stdout carries the tool's trailing newline
    dryRun,     \* cfg.DryRun
    cfg,        \* the Config the running command parsed from its flags
    sizing,     \* SetupCronJob's resource sizing: where the Resources it
                \* handed to the cron job template came from, the usage
                \* they were calculated from, and the Resources
    secretChecks,  \* GenerateKeys' last verification loop: `get secret`
                \* commands run, sleeps taken (seconds), secret seen
    periodic,   \* a run that <vm>-repl-cronjob started while the running migrate
                \* had its final job running is executing
    srcDef, srcStatus,   \* source VM: declared spec and printableStatus
    dstDef, dstStatus,   \* destination VM
    cron,       \* <vm>-repl-cronjob: "absent", "active", "suspended"
    finalJob,   \* <vm>-repl-final-job: "absent", "running", "complete"
    srcPod, dstPod,      \* replicator pods: "absent", "Pending", "Running"
    dstSvc,     \* <vm>-dst-svc exists
    keys,       \* keypair on the source replicator ("none": no key files)
    secret,     \* key held by <vm>-repl-ssh-keys ("none": no secret)
    authKeys,   \* key authorized on the destination replicator
    mounted,    \* sshfs mount of the destination inside the source replicator
    copied,     \* the initial bulk copy was started
    exported,   \* definition the running command got from ExportVM
    vmDef,      \* the running command's local of that name
    imported,   \* definition the running command handed to ImportVM
    atStart,    \* what the running command found when it started, and whether
                \* the command before it was an init that started on a
                \* provisioned state and succeeded
    privateKeyFile,  \* private key that the running command's GenerateKeys left
                \* in its local file /tmp/<vm>-id_rsa ("none": it wrote none)
    checkResults,  \* CheckManager.checkResults
    executed,   \* probes the running check actually executed
    destVMStatus   \* CheckConnectivity's local of that name

vars ==
    <<cmd, pc, result, runs, faults, polls, log, nl, dryRun, cfg, secretChecks, sizing,
      periodic,
      srcDef,
      srcStatus, dstDef, dstStatus, cron, finalJob, srcPod, dstPod, dstSvc, keys, secret,
      authKeys, mounted, copied, exported, vmDef, imported, atStart, privateKeyFile,
      checkResults, executed,
      destVMStatus>>

runVars ==
    <<cmd, runs, nl, dryRun, cfg, secretChecks, sizing>>
vmVars ==
    <<srcDef, srcStatus, dstDef, dstStatus>>
jobVars ==
    <<cron, finalJob, periodic>>
podVars ==
    <<srcPod, dstPod, dstSvc, keys, secret, authKeys, mounted, copied>>
defVars ==
    <<exported, vmDef, imported, atStart, privateKeyFile>>
checkVars ==
    <<checkResults, executed, destVMStatus>>

\* ------------------------------------------------------- VM definitions
\* A VirtualMachine spec exposes spec.running or spec.runStrategy.
VMDefs ==
    { [running |-> "true",   runStrategy |-> "absent"],
      [running |-> "false",  runStrategy |-> "absent"],
      [running |-> "absent", runStrategy |-> "Always"],
      [running |-> "absent", runStrategy |-> "Halted"] }
NoDef ==
    [running |-> "none", runStrategy |-> "none"]

DeclaredRunning(def) ==
    \/ def.runStrategy = "Always"
    \/ def.runStrategy = "absent" /\ def.running = "true"

\* The status a VM converges to.
Converged(def) ==
    IF DeclaredRunning(def) THEN "Running" ELSE "Stopped"

\* -------------------------------------------------- the command runner
\* executor.Execute: a command that can succeed may still fail for a reason
\* outside the program (at most MaxFaults times in a behaviour).
OutcomesAfter(possible, used) ==
    IF possible /\ faults + used < MaxFaults THEN {TRUE, FALSE} ELSE {possible}

Outcomes(possible) ==
    OutcomesAfter(possible, 0)

\* 1 when a command that could have succeeded failed.
Fault(possible, ok) ==
    IF possible /\ ~ok THEN 1 ELSE 0

\* Captured stdout: the text, whether it is wrapped in the quotes of a
\* jsonpath='...' argument (passed without a shell, the quotes are printed),
\* and whether it still ends with the newline a line-printing tool (yq, a
\* custom-columns listing) adds.  A string literal of the code is the text
\* with neither.
Out(text, quoted) ==
    [text |-> text, quoted |-> quoted, nl |-> (~quoted /\ nl)]

Lit(text) ==
    [text |-> text, quoted |-> FALSE, nl |-> FALSE]

QLit(text) ==
    [text |-> text, quoted |-> TRUE, nl |-> FALSE]

\* strings.Trim(output, "'")
TrimQuotes(out) ==
    [out EXCEPT !.quoted = FALSE]

\* strings.TrimSpace(output)
TrimSpace(out) ==
    [out EXCEPT !.nl = FALSE]

\* The run's trace: what it did, and the value the step saw or sent.
Emit(op, arg) ==
    log' = Append(log, <<op, arg>>)

Return(r) ==
    /\ pc' = "idle"
    /\ result' = r

\* ---------------------------------------------------------- cluster client
ValidDef(def) ==
    def.running = "absent" \/ def.runStrategy = "absent"

\* `get vm -o jsonpath='{.spec.runStrategy}'`: an unset field prints nothing
\* between the quotes.
RunStrategyOutput(def) ==
    Out(IF def.runStrategy = "absent" THEN "" ELSE def.runStrategy, TRUE)

\* A probe that always finds spec.runStrategy.
RunStrategyAssumed(ok, out) ==
    TRUE

\* base_client.go: runStrategyExists := err == nil && out != "" && out != "''" && out != "'null'"
RunStrategyExists(ok, out) ==
    ok /\ out # Lit("") /\ out # QLit("") /\ out # QLit("null")

\* The merge patch StopVM sends.
StopPatch(def, useRunStrategy) ==
    IF useRunStrategy THEN [def EXCEPT !.runStrategy = "Halted"]
    ELSE [def EXCEPT !.running = "false"]

\* The merge patch StartVM sends.
StartPatch(def, useRunStrategy) ==
    IF useRunStrategy THEN [def EXCEPT !.runStrategy = "Always"]
    ELSE [def EXCEPT !.running = "true"]

\* GetVMStatus: the trimmed printableStatus, or an error (a NotFound one when
\* the VM does not exist, "VM status is empty" when no status is set yet).
GetVMStatus(status, cmdOk) ==
    IF status = "Absent" THEN [ok |-> FALSE, notFound |-> TRUE, status |-> Lit("")]
    ELSE IF ~cmdOk THEN [ok |-> FALSE, notFound |-> FALSE, status |-> Lit("")]
    ELSE LET s == TrimQuotes(Out(status, TRUE)) IN
         IF s = Lit("") THEN [ok |-> FALSE, notFound |-> FALSE, status |-> Lit("")]
         ELSE [ok |-> TRUE, notFound |-> FALSE, status |-> s]

\* A wait that takes whatever status it read as the expected one.
AnyStatusReached(status, expected) ==
    status = status

\* WaitForVMStatus: status == expectedStatus
StatusReached(status, expected) ==
    status = Lit(expected)

\* ------------------------------------------------------ check results
CheckFailed ==
    0
CheckSuccess ==
    1
CheckNotTested ==
    -1

\* make(map[string]int)
NoResults ==
    [n \in {} |-> CheckNotTested]

\* markRemainingNotTested's expectedChecks
ExpectedChecks ==
    {"Source Pod", "Destination Pod", "SSH Service", "SSH Auth", "NodePort",
     "Host IP", "TCP Connection", "Write Permissions", "SSHFS Available",
     "Mount", "Mount Verification", "Unmount"}

addCheckResult(results, checkName, success) ==
    [n \in DOMAIN results \cup {checkName} |->
        IF n = checkName
        THEN (IF success THEN CheckSuccess ELSE CheckFailed)
        ELSE results[n]]

\* A marking that adds nothing.
markNothing(results) ==
    results

markRemainingNotTested(results) ==
    [n \in DOMAIN results \cup ExpectedChecks |->
        IF n \in DOMAIN results THEN results[n] ELSE CheckNotTested]

\* ------------------------------------------------------ configuration
\* A string is the sequence of its characters; a run of characters that are
\* not white space may be written as one element.
IsSpace(ch) ==
    ch = " "

DefaultKubeCLI ==
    "oc"
DefaultSyncTool ==
    "rclone"
DefaultReplicationSchedule ==
    <<"*/15", " ", "*", " ", "*", " ", "*", " ", "*">>

\* Schedules an operator may type that are not of the five-field form.
Schedules ==
    { <<"0", " ", "*", " ", "*", " ", "*">>,
      <<"0", " ", "0", " ", "*", " ", "*", " ", "*", " ", "*">>,
      <<"@", "h", "o", "u", "r", "l", "y">> }

\* The command line: what the flags hold.
BaseFlags ==
    [vmName |-> "vm", namespace |-> "ns", srcKubeconfig |-> "src.kubeconfig",
     dstKubeconfig |-> "dst.kubeconfig", kubeCLI |-> "oc", syncTool |-> "rclone",
     schedule |-> DefaultReplicationSchedule]

\* The base command line, the one that leaves every optional flag empty, and
\* the base command line with one flag changed.
Flags ==
    {BaseFlags,
     [BaseFlags EXCEPT !.kubeCLI = "", !.syncTool = "", !.schedule = <<>>]}
    \cup {[BaseFlags EXCEPT ![f] = ""] :
            f \in {"vmName", "namespace", "srcKubeconfig", "dstKubeconfig"}}
    \cup {[BaseFlags EXCEPT !.kubeCLI = "docker"], [BaseFlags EXCEPT !.syncTool = "scp"]}
    \cup {[BaseFlags EXCEPT !.schedule = sch] : sch \in Schedules}

\* Config.setDefaults
setDefaults(c) ==
    [c EXCEPT !.kubeCLI = IF @ = "" THEN DefaultKubeCLI ELSE @,
              !.syncTool = IF @ = "" THEN DefaultSyncTool ELSE @,
              !.schedule = IF @ = <<>> THEN DefaultReplicationSchedule ELSE @]

\* First position from i on whose character is (space = TRUE) not white space
\* or (space = FALSE) white space; Len(str) + 1 when there is none.
RECURSIVE SkipRun(_, _, _)
SkipRun(str, i, space) ==
    IF i > Len(str) \/ IsSpace(str[i]) # space THEN i
    ELSE SkipRun(str, i + 1, space)

\* regexp.MatchString(`^(\S+\s+){n}\S+$`, str) read from position i.
RECURSIVE MatchFields(_, _, _)
MatchFields(str, i, n) ==
    LET j == SkipRun(str, i, FALSE) IN
    IF j = i THEN FALSE
    ELSE IF n = 0 THEN j = Len(str) + 1
    ELSE LET k == SkipRun(str, j, TRUE) IN
         IF k = j THEN FALSE ELSE MatchFields(str, k, n - 1)

\* cronRegex := `^(\S+\s+){4}\S+$`
CronRegexMatches(str) ==
    MatchFields(str, 1, 4)

Nil ==
    "nil"

\* A validation that accepts everything.
ValidateNothing(c) ==
    Nil

\* Config.Validate: the error it returns.
Validate(c) ==
    IF c.vmName = "" THEN "vm-name is required"
    ELSE IF c.namespace = "" THEN "namespace is required"
    ELSE IF c.srcKubeconfig = "" THEN "src-kubeconfig is required"
    ELSE IF c.dstKubeconfig = "" THEN "dst-kubeconfig is required"
    ELSE IF c.kubeCLI # "oc" /\ c.kubeCLI # "kubectl"
         THEN "kubecli must be 'oc' or 'kubectl'"
    ELSE IF c.syncTool # "rclone" /\ c.syncTool # "rsync"
         THEN "sync-tool must be 'rclone' or 'rsync'"
    ELSE IF c.schedule # <<>> /\ ~CronRegexMatches(c.schedule)
         THEN "invalid cron schedule format"
    ELSE Nil

\* ParseInitConfig (init, check) and LoadConfig read the schedule;
\* ParseMigrateConfig does not.
ParseConfig(c, flags) ==
    setDefaults(IF c = "migrate" THEN [flags EXCEPT !.schedule = <<>>] ELSE flags)

\* ------------------------------------------------- resource calculator
\* An int64 byte count is kept as whole MiB and the bytes left over, so that
\* every number stays small: bytes = mib * 2^20 + rest, 0 <= rest < 2^20.
MiB ==
    1048576

Bytes(mib, rest) ==
    [mib |-> mib + (rest \div MiB), rest |-> rest % MiB]

\* a <= b
BytesLeq(a, b) ==
    a.mib < b.mib \/ (a.mib = b.mib /\ a.rest <= b.rest)

\* math.Ceil(bytes * num / (den MiB)) for whole num and den; the float64
\* operations of the calculator are exact or correctly rounded on these values.
CeilOf(bytes, num, den) ==
    LET scaled == Bytes(bytes.mib * num, bytes.rest * num)
        whole == scaled.mib \div den
        left == scaled.mib % den
    IN IF left > 0 \/ scaled.rest > 0 THEN whole + 1 ELSE whole

\* The decimal digits of a natural number, as characters.
Digit(d) ==
    <<"0", "1", "2", "3", "4", "5", "6", "7", "8", "9">>[d + 1]

RECURSIVE Itoa(_)
Itoa(n) ==
    IF n < 10 THEN <<Digit(n)>> ELSE Append(Itoa(n \div 10), Digit(n % 10))

\* fmt.Sprintf("%.1f", x) for x given in tenths
FormatTenths(tenths) ==
    Itoa(tenths \div 10) \o <<".", Digit(tenths % 10)>>

\* fmt.Sprintf("%.0fGi", x) for a whole x
FormatGi(n) ==
    Itoa(n) \o <<"G", "i">>

\* Resources{}
NoResources ==
    [cpuLimit |-> <<>>, cpuRequest |-> <<>>, memoryLimit |-> <<>>,
     memoryRequest |-> <<>>]

\* ResourceCalculator.GetDefaultResources
GetDefaultResources ==
    [cpuLimit |-> <<"1">>, cpuRequest |-> <<"1">>,
     memoryLimit |-> <<"2", "G", "i">>, memoryRequest |-> <<"2", "G", "i">>]

\* min and max of a clamp
Clamp(x, lo, hi) ==
    IF x < lo THEN lo ELSE IF x > hi THEN hi ELSE x

\* A calculation whose memory follows 1.5 times the usage, up to 16 GB.
CalculateResourcesGenerous(usedBytes) ==
    LET usedGB == IF usedBytes.mib < 1024 THEN Bytes(1024, 0) ELSE usedBytes
        cpuCores == Clamp(CeilOf(usedGB, 1, 5 * 1024), 1, 4)
        memoryGB == Clamp(CeilOf(usedGB, 15, 10 * 1024), 2, 16)
    IN [cpuLimit |-> FormatTenths(cpuCores * 10),
        cpuRequest |-> FormatTenths(cpuCores * 7),
        memoryLimit |-> FormatGi(memoryGB),
        memoryRequest |-> FormatGi((memoryGB * 7 + 9) \div 10)]

\* ResourceCalculator.CalculateResourcesFromUsage: usedGB is at least 1; one
\* core per 5 GB within 1..4; 0.3 GB of memory per GB within 2..8; requests at
\* 70% of the limits.
CalculateResourcesFromUsage(usedBytes) ==
    LET usedGB == IF usedBytes.mib < 1024 THEN Bytes(1024, 0) ELSE usedBytes
        cpuCores == Clamp(CeilOf(usedGB, 1, 5 * 1024), 1, 4)
        memoryGB == Clamp(CeilOf(usedGB, 3, 10 * 1024), 2, 8)
    IN [cpuLimit |-> FormatTenths(cpuCores * 10),
        cpuRequest |-> FormatTenths(cpuCores * 7),
        memoryLimit |-> FormatGi(memoryGB),
        memoryRequest |-> FormatGi((memoryGB * 7 + 9) \div 10)]

IsDigit(ch) ==
    ch \in {"0", "1", "2", "3", "4", "5", "6", "7", "8", "9"}

DigitValue(ch) ==
    CHOOSE d \in 0..9 : Digit(d) = ch

\* strings.TrimSpace on a sequence of characters
RECURSIVE TrimSpaces(_)
TrimSpaces(str) ==
    IF str = <<>> THEN str
    ELSE IF IsSpace(Head(str)) \/ Head(str) = "\n" THEN TrimSpaces(Tail(str))
    ELSE IF IsSpace(str[Len(str)]) \/ str[Len(str)] = "\n"
         THEN TrimSpaces(SubSeq(str, 1, Len(str) - 1))
    ELSE str

\* strings.ToLower, on the letters of a unit
ToLower(str) ==
    [i \in 1..Len(str) |->
        CASE str[i] = "K" -> "k" [] str[i] = "M" -> "m" [] str[i] = "G" -> "g"
          [] str[i] = "T" -> "t" [] str[i] = "I" -> "i" [] str[i] = "P" -> "p"
          [] OTHER -> str[i]]

\* strconv.ParseInt(numStr, 10, 64) of a string of digits
RECURSIVE Atoi(_)
Atoi(numStr) ==
    IF numStr = <<>> THEN 0
    ELSE Atoi(SubSeq(numStr, 1, Len(numStr) - 1)) * 10
         + DigitValue(numStr[Len(numStr)])

\* ResourceCalculator.ParseSize: the digits before the first other character
\* are the number, the rest is the unit; ok is FALSE where it returns an error.
ParseSize(size) ==
    LET trimmed == TrimSpaces(size)
        others == {i \in 1..Len(trimmed) : ~IsDigit(trimmed[i])}
        cut == IF others = {} THEN Len(trimmed) + 1
               ELSE CHOOSE i \in others : \A j \in others : i <= j
        numStr == SubSeq(trimmed, 1, cut - 1)
        unit == ToLower(SubSeq(trimmed, cut, Len(trimmed)))
        num == Atoi(numStr)
    IN IF trimmed = <<>> \/ numStr = <<>> THEN [ok |-> FALSE, bytes |-> Bytes(0, 0)]
       ELSE CASE unit \in {<<"k">>, <<"k", "i">>} -> [ok |-> TRUE, bytes |-> Bytes(0, num * 1024)]
              [] unit \in {<<"m">>, <<"m", "i">>} -> [ok |-> TRUE, bytes |-> Bytes(num, 0)]
              [] unit \in {<<"g">>, <<"g", "i">>} -> [ok |-> TRUE, bytes |-> Bytes(num * 1024, 0)]
              [] unit \in {<<"t">>, <<"t", "i">>} -> [ok |-> TRUE, bytes |-> Bytes(num * MiB, 0)]
              [] unit = <<>> -> [ok |-> TRUE, bytes |-> Bytes(0, num)]
              [] OTHER -> [ok |-> FALSE, bytes |-> Bytes(0, 0)]

\* int64(float64(sizeBytes) * 0.25)
Quarter(bytes) ==
    Bytes(bytes.mib \div 4, ((bytes.mib % 4) * MiB + bytes.rest) \div 4)

\* ResourceCalculator.FallbackToPVCSize: a quarter of the claim's size counts
\* as used; on a size that does not parse it returns Resources{} and the error.
FallbackToPVCSize(pvcSize) ==
    LET parsed == ParseSize(pvcSize) IN
    IF parsed.ok
    THEN [ok |-> TRUE, resources |-> CalculateResourcesFromUsage(Quarter(parsed.bytes))]
    ELSE [ok |-> FALSE, resources |-> NoResources]

\* No sizing was done.
NoSizing ==
    [source |-> "none", usedBytes |-> Bytes(0, 0), resources |-> NoResources]

\* A disk usage GetActualDiskUsage may report: `du -sh` printed 12G.
MeasuredUsages ==
    {Bytes(12 * 1024, 0)}

\* What the storage request of the claim named after the VM may read.
PVCSizes ==
    { <<"1", "0", "0", "G", "i">>, <<"1", ".", "5", "G", "i">>, <<>> }

\* SetupCronJob's sizing: from the measured usage when there is one, else from
\* the claim's size when it can be read, else the defaults; `resources` is
\* assigned whatever FallbackToPVCSize returned.
SizeResources(measured, usedBytes, pvcFound, pvcSize) ==
    IF measured
    THEN [source |-> "usage", usedBytes |-> usedBytes,
          resources |-> CalculateResourcesFromUsage(usedBytes)]
    ELSE IF pvcFound
         THEN LET fallback == FallbackToPVCSize(pvcSize) IN
              [source |-> IF fallback.ok THEN "pvc" ELSE "unparsed",
               usedBytes |-> IF fallback.ok THEN Quarter(ParseSize(pvcSize).bytes)
                             ELSE Bytes(0, 0),
               resources |-> fallback.resources]
         ELSE [source |-> "default", usedBytes |-> Bytes(0, 0),
               resources |-> GetDefaultResources]

\* GenerateKeys' verification loop before its first iteration.
NoChecks ==
    [checks |-> 0, slept |-> <<>>, seen |-> FALSE]

\* The commands of the tool: init, check, and the two runMigrate of the
\* repository.
Commands ==
    {"init", "migrate", "migrateV1", "check"}

\* The configurations each command can be started with.
Configs ==
    [c \in Commands |-> {ParseConfig(c, flags) : flags \in Flags}]

\* What Validate returns for each of them.
ConfigError ==
    [parsed \in UNION {Configs[c] : c \in Commands} |-> Validate(parsed)]

\* ---------------------------------------------------------------- Init
Provisioned ==
    /\ srcPod = "Running" /\ dstPod = "Running" /\ dstSvc = TRUE
    /\ keys = "k1" /\ secret = "k1" /\ authKeys = "k1"
    /\ mounted = TRUE /\ copied = TRUE /\ cron = "active"

\* Everything init provisions is there, as init leaves it.
FullyProvisioned ==
    /\ srcStatus \in {"Running", "Stopped"} /\ dstStatus \in {"Running", "Stopped"}
    /\ srcPod = "Running" /\ dstPod = "Running" /\ dstSvc
    /\ keys # "none" /\ secret = keys /\ authKeys = keys
    /\ cron # "absent"

Bare ==
    /\ srcPod = "absent" /\ dstPod = "absent" /\ dstSvc = FALSE
    /\ keys = "none" /\ secret = "none" /\ authKeys = "none"
    /\ mounted = FALSE /\ copied = FALSE /\ cron = "absent"

Init ==
    /\ cmd = "none" /\ pc = "idle" /\ result = "none"
    /\ runs = 0 /\ faults = 0 /\ polls = 0 /\ log = <<>>
    /\ nl \in BOOLEAN
    /\ dryRun = FALSE
    /\ cfg = BaseFlags
    /\ secretChecks = NoChecks /\ sizing = NoSizing
    /\ periodic = FALSE
    /\ \/ srcDef = NoDef /\ srcStatus = "Absent"
       \/ srcDef \in VMDefs /\ srcStatus = Converged(srcDef)
    /\ \/ dstDef = NoDef /\ dstStatus = "Absent"
       \/ /\ srcDef \in VMDefs
          /\ dstDef \in {StopPatch(srcDef, srcDef.runStrategy # "absent"),
                         StartPatch(srcDef, srcDef.runStrategy # "absent")}
          /\ dstStatus = Converged(dstDef)
    /\ finalJob = "absent"
    /\ \/ Bare
       \/ Provisioned /\ dstStatus # "Absent"
    /\ exported = NoDef /\ vmDef = NoDef /\ imported = NoDef
    /\ atStart = [dst |-> NoDef, src |-> "Absent", provisioned |-> FALSE,
                  faults |-> 0, prev |-> FALSE]
    /\ privateKeyFile = "none"
    /\ checkResults = NoResults /\ executed = {} /\ destVMStatus = Lit("")

\* A command is started from the shell.
StartRun ==
    /\ pc = "idle" /\ runs < MaxRuns
    /\ runs' = runs + 1
    /\ \E c \in Commands :
         \E parsed \in Configs[c] :
           LET err == ConfigError[parsed] IN
           /\ cmd' = c
           /\ cfg' = parsed
           /\ err # Nil => faults < MaxFaults
           /\ faults' = faults + (IF err # Nil THEN 1 ELSE 0)
           /\ dryRun' \in (IF c = "init" /\ err = Nil THEN BOOLEAN ELSE {FALSE})
           /\ IF err # Nil
              THEN pc' = "idle" /\ result' = "err"
              ELSE /\ pc' = CASE c = "init" -> "initSrcVM"
                             [] c = "migrate" -> "finalCheck"
                             [] c = "migrateV1" -> "v1Suspend"
                             [] c = "check" -> "chkSrcVM"
                   /\ result' = "none"
    /\ log' = <<>> /\ polls' = 0 /\ secretChecks' = NoChecks /\ sizing' = NoSizing
    /\ exported' = NoDef /\ vmDef' = NoDef /\ imported' = NoDef
    /\ atStart' = [dst |-> dstDef, src |-> srcStatus,
                   provisioned |-> FullyProvisioned, faults |-> faults,
                   prev |-> (cmd = "init" /\ result = "ok" /\ atStart.provisioned)]
    /\ checkResults' = NoResults /\ executed' = {} /\ destVMStatus' = Lit("")
    /\ periodic' = FALSE
    /\ privateKeyFile' = "none"
    /\ UNCHANGED <<nl, vmVars, cron, finalJob, podVars>>

\* ---------------------------------------------------------- environment
\* KubeVirt converges a VM's status to its declared state.
VMConverges ==
    /\ \/ /\ srcStatus \notin {"Absent", Converged(srcDef)}
          /\ srcStatus' = Converged(srcDef)
          /\ UNCHANGED dstStatus
       \/ /\ dstStatus \notin {"Absent", Converged(dstDef)}
          /\ dstStatus' = Converged(dstDef)
          /\ UNCHANGED srcStatus
    /\ UNCHANGED <<cmd, pc, result, runs, faults, polls, log, nl, dryRun, cfg,
                   secretChecks, sizing,
                   srcDef, dstDef, jobVars, podVars, defVars, checkVars>>

\* The final replication job runs to completion.
FinalJobCompletes ==
    /\ finalJob = "running"
    /\ finalJob' = "complete"
    /\ UNCHANGED <<cmd, pc, result, runs, faults, polls, log, nl, dryRun, cfg,
                   secretChecks, sizing,
                   vmVars, cron, periodic, podVars, defVars, checkVars>>

\* The schedule of the periodic job comes up and the cron job, not suspended,
\* starts a run.  Only the runs that start while a migrate has its final
\* job running are followed.
PeriodicRunStarts ==
    /\ cron = "active" /\ ~periodic
    /\ cmd \in {"migrate", "migrateV1"} /\ pc # "idle"
    /\ finalJob = "running"
    /\ periodic' = TRUE
    /\ UNCHANGED <<cmd, pc, result, runs, faults, polls, log, nl, dryRun, cfg,
                   secretChecks, sizing,
                   vmVars, cron, finalJob, podVars, defVars, checkVars>>

\* A run of the periodic job ends.
PeriodicRunEnds ==
    /\ periodic
    /\ periodic' = FALSE
    /\ UNCHANGED <<cmd, pc, result, runs, faults, polls, log, nl, dryRun, cfg,
                   secretChecks, sizing,
                   vmVars, cron, finalJob, podVars, defVars, checkVars>>

\* A scheduled replicator pod becomes ready.
PodStarts ==
    /\ \/ srcPod = "Pending" /\ srcPod' = "Running" /\ UNCHANGED dstPod
       \/ dstPod = "Pending" /\ dstPod' = "Running" /\ UNCHANGED srcPod
    /\ UNCHANGED <<cmd, pc, result, runs, faults, polls, log, nl, dryRun, cfg,
                   secretChecks, sizing,
                   vmVars, jobVars, dstSvc, keys, secret, authKeys, mounted, copied,
                   defVars, checkVars>>

\* ------------------------------------------------- client operations
\* A command that failed sends the caller to its error return.
ReturnError ==
    /\ pc \in {"fail", "v1Fail"}
    /\ Return("err")
    /\ UNCHANGED <<runVars, faults, polls, log, vmVars, jobVars, podVars, defVars,
                   checkVars>>

\* BaseClient.StopVM / StartVM: probe spec.runStrategy, then merge-patch the
\* field found.  The API server rejects a spec that sets both fields.
PatchVM(side, start, at, next, fail, event) ==
    /\ pc = at
    /\ LET def == IF side = "src" THEN srcDef ELSE dstDef
           exists == (IF side = "src" THEN srcStatus ELSE dstStatus) # "Absent"
       IN \E probeOk \in Outcomes(exists) :
            LET use == RunStrategyExists(probeOk, RunStrategyOutput(def))
                new == IF start THEN StartPatch(def, use) ELSE StopPatch(def, use)
                can == exists /\ ValidDef(new)
            IN \E patchOk \in OutcomesAfter(can, Fault(exists, probeOk)) :
                 /\ faults' = faults + Fault(exists, probeOk) + Fault(can, patchOk)
                 /\ srcDef' = IF patchOk /\ side = "src" THEN new ELSE srcDef
                 /\ dstDef' = IF patchOk /\ side = "dst" THEN new ELSE dstDef
                 /\ pc' = IF patchOk THEN next ELSE fail
                 /\ Emit(event, IF patchOk THEN "ok" ELSE "err")
    /\ UNCHANGED <<runVars, result, polls, srcStatus, dstStatus, jobVars, podVars,
                   defVars, checkVars>>

StopVM(side, at, next, fail, event) ==
    PatchVM(side, FALSE, at, next, fail, event)

StartVM(side, at, next, fail, event) ==
    PatchVM(side, TRUE, at, next, fail, event)

\* A wait that gives up at the deadline and reports success.
WaitForVMStatusTimeoutDropped(side, expected, at, next, fail, event) ==
    /\ pc = at
    /\ LET status == IF side = "src" THEN srcStatus ELSE dstStatus IN
       IF polls >= MaxPolls
       THEN /\ pc' = next /\ polls' = 0
            /\ Emit(event, "timeout")
            /\ UNCHANGED faults
       ELSE \E ok \in Outcomes(status # "Absent") :
              LET s == GetVMStatus(status, ok) IN
              /\ faults' = faults + Fault(status # "Absent", ok)
              /\ IF s.ok /\ StatusReached(s.status, expected)
                 THEN /\ pc' = next /\ polls' = 0 /\ Emit(event, s.status.text)
                 ELSE /\ polls' = polls + 1
                      /\ UNCHANGED <<pc, log>>
    /\ UNCHANGED <<runVars, result, vmVars, jobVars, podVars, defVars, checkVars>>

\* BaseClient.WaitForVMStatus: poll every interval until the status read is the
\* expected one or the deadline has passed (MaxPolls sleeps fit before it).
WaitForVMStatus(side, expected, at, next, fail, event) ==
    /\ pc = at
    /\ LET status == IF side = "src" THEN srcStatus ELSE dstStatus IN
       IF polls >= MaxPolls
       THEN /\ pc' = fail /\ polls' = 0
            /\ Emit(event, "timeout")
            /\ UNCHANGED faults
       ELSE \E ok \in Outcomes(status # "Absent") :
              LET s == GetVMStatus(status, ok) IN
              /\ faults' = faults + Fault(status # "Absent", ok)
              /\ IF s.ok /\ StatusReached(s.status, expected)
                 THEN /\ pc' = next /\ polls' = 0 /\ Emit(event, s.status.text)
                 ELSE /\ polls' = polls + 1
                      /\ UNCHANGED <<pc, log>>
    /\ UNCHANGED <<runVars, result, vmVars, jobVars, podVars, defVars, checkVars>>

\* BaseClient.CleanupMigrationResources: the resources of one side that exist.
CleanupSet(isDestination) ==
    IF isDestination
    THEN {k \in {"dstpod", "svc"} :
            \/ k = "dstpod" /\ dstPod # "absent"
            \/ k = "svc" /\ dstSvc}
    ELSE {k \in {"job", "cronjob", "srcpod", "secret"} :
            \/ k = "job" /\ finalJob # "absent"
            \/ k = "cronjob" /\ cron # "absent"
            \/ k = "srcpod" /\ srcPod # "absent"
            \/ k = "secret" /\ secret # "none"}

\* A deletion in which the key files go with the secret.
DeletedWithKeys(gone) ==
    /\ finalJob' = IF "job" \in gone THEN "absent" ELSE finalJob
    /\ cron' = IF "cronjob" \in gone THEN "absent" ELSE cron
    /\ periodic' = IF "cronjob" \in gone THEN FALSE ELSE periodic
    /\ srcPod' = IF "srcpod" \in gone THEN "absent" ELSE srcPod
    /\ keys' = IF gone \cap {"srcpod", "secret"} # {} THEN "none" ELSE keys
    /\ mounted' = IF gone \cap {"srcpod", "dstpod"} # {} THEN FALSE ELSE mounted
    /\ secret' = IF "secret" \in gone THEN "none" ELSE secret
    /\ dstPod' = IF "dstpod" \in gone THEN "absent" ELSE dstPod
    /\ authKeys' = IF "dstpod" \in gone THEN "none" ELSE authKeys
    /\ dstSvc' = IF "svc" \in gone THEN FALSE ELSE dstSvc
    /\ UNCHANGED copied

\* What the cluster looks like once the resources in `gone` are deleted.
Deleted(gone) ==
    /\ finalJob' = IF "job" \in gone THEN "absent" ELSE finalJob
    /\ cron' = IF "cronjob" \in gone THEN "absent" ELSE cron
    /\ periodic' = IF "cronjob" \in gone THEN FALSE ELSE periodic
    /\ srcPod' = IF "srcpod" \in gone THEN "absent" ELSE srcPod
    /\ keys' = IF "srcpod" \in gone THEN "none" ELSE keys
    /\ mounted' = IF gone \cap {"srcpod", "dstpod"} # {} THEN FALSE ELSE mounted
    /\ secret' = IF "secret" \in gone THEN "none" ELSE secret
    /\ dstPod' = IF "dstpod" \in gone THEN "absent" ELSE dstPod
    /\ authKeys' = IF "dstpod" \in gone THEN "none" ELSE authKeys
    /\ dstSvc' = IF "svc" \in gone THEN FALSE ELSE dstSvc
    /\ UNCHANGED copied

\* The resources of one side, in the order of the loop.
Resources(isDestination) ==
    IF isDestination THEN <<"dstpod", "svc">>
    ELSE <<"job", "cronjob", "srcpod", "secret">>

\* How the `get --ignore-not-found` before a delete may end: it lists the
\* resource or prints nothing ("ok"), or it fails, and then the executor
\* returns what the command wrote to stderr: some text ("stderr") or nothing
\* ("silent").  The error itself is dropped.
ProbeResults ==
    {"ok", "stderr", "silent"}

\* The names the loop goes through.
CleanupKinds(isDestination) ==
    {Resources(isDestination)[i] : i \in 1..Len(Resources(isDestination))}

\* The deletes of a cleanup that fail: some of them while failures are left,
\* or every one of them (the cluster cannot be reached).
DeleteFailures(attempted, used) ==
    {failed \in SUBSET attempted :
        \/ failed \in {{}, attempted}
        \/ Cardinality(failed) <= MaxFaults - faults - used}

\* The probes of one call: a probe fails only while failures are left.
Probes(isDestination) ==
    {probe \in [CleanupKinds(isDestination) -> ProbeResults] :
        \/ \A k \in DOMAIN probe : probe[k] = "ok"
        \/ Cardinality({k \in DOMAIN probe : probe[k] # "ok"}) <= MaxFaults - faults}

\* The resources whose probe output is not empty: these get a delete.
Attempted(isDestination, probe) ==
    {k \in DOMAIN probe :
        \/ probe[k] = "ok" /\ k \in CleanupSet(isDestination)
        \/ probe[k] = "stderr"}

IsAttempt(e) ==
    e[1] # "skip"

\* BaseClient.CleanupMigrationResources: each resource of the side is probed
\* and, when the probe printed something, deleted; a delete that fails is
\* noted and the loop goes on; an error is returned when one of them failed.
CleanupMigrationResources(isDestination, probe, failed) ==
    LET order == Resources(isDestination)
        attempted == Attempted(isDestination, probe)
    IN /\ DOMAIN probe = CleanupKinds(isDestination)
       /\ failed \subseteq attempted
       /\ faults' = faults + Cardinality(failed)
                      + Cardinality({k \in DOMAIN probe : probe[k] # "ok"})
       /\ Deleted((attempted \cap CleanupSet(isDestination)) \ failed)
       /\ log' = log
            \o SelectSeq([i \in 1..Len(order) |->
                            IF order[i] \notin attempted THEN <<"skip", order[i]>>
                            ELSE IF order[i] \in failed THEN <<"delete_err", order[i]>>
                            ELSE <<"delete", order[i]>>], IsAttempt)
            \o << <<"cleaned", IF failed = {} THEN "ok" ELSE "err">> >>

\* BaseClient.ExportVM: get vm -o yaml
ExportVM(at, next, fail) ==
    /\ pc = at
    /\ \E ok \in Outcomes(srcStatus # "Absent") :
         /\ faults' = faults + Fault(srcStatus # "Absent", ok)
         /\ exported' = IF ok THEN srcDef ELSE exported
         /\ vmDef' = exported'
         /\ pc' = IF ok THEN next ELSE fail
         /\ Emit("export", IF ok THEN "ok" ELSE "err")
    /\ UNCHANGED <<runVars, result, polls, vmVars, jobVars, podVars, imported,
                   atStart, privateKeyFile, checkVars>>

\* BaseClient.ImportVM: write the definition to /tmp/vm-import.yaml and apply
\* it; a new VM has no status until KubeVirt has seen it.
ImportVM(def, at, next, fail) ==
    /\ pc = at
    /\ imported' = def
    /\ \E ok \in Outcomes(ValidDef(def)) :
         /\ faults' = faults + Fault(ValidDef(def), ok)
         /\ dstDef' = IF ok THEN def ELSE dstDef
         /\ dstStatus' = IF ok /\ dstStatus = "Absent" THEN "" ELSE dstStatus
         /\ pc' = IF ok THEN next ELSE fail
         /\ Emit("import", IF ok THEN "ok" ELSE "err")
    /\ UNCHANGED <<runVars, result, polls, srcDef, srcStatus, jobVars, podVars,
                   exported, vmDef, atStart, privateKeyFile, checkVars>>

\* ---------------------------------------------- SSHManager (replication)
KeyIds ==
    {"k1", "k2", "k3", "k4"}

NoKey ==
    "none"

\* ssh-keygen makes a key no one holds yet.
NewKey ==
    CHOOSE k \in KeyIds : k \notin {keys, secret, authKeys}

\* GenerateKeys' verification loop: maxRetries and the first retryDelay, in
\* seconds.
maxRetries ==
    3
retryDelay ==
    5

\* A loop that sleeps the same delay after every failed check.
VerifySecretFlat(i, delay, outcomes, done) ==
    LET misses == Cardinality({k \in 1..maxRetries : \A j \in 1..k : ~outcomes[j]})
    IN [checks |-> IF misses = maxRetries THEN maxRetries ELSE misses + 1,
        slept |-> [k \in 1..(IF misses = maxRetries THEN misses - 1 ELSE misses)
                     |-> delay],
        seen |-> misses < maxRetries]

\* A loop that gives up with an error when no check saw the secret.
VerifiedOrFailed(r) ==
    r.seen

\* Whether GenerateKeys returns nil after the loop r: it always does.
ReturnsAfterVerify(r) ==
    TRUE

\* The loop `for i := 0; i < maxRetries; i++`: iteration i with the current
\* delay; outcomes[k] is whether the k-th `get secret` succeeds.
RECURSIVE VerifySecret(_, _, _, _)
VerifySecret(i, delay, outcomes, done) ==
    IF i >= maxRetries THEN done
    ELSE LET checked == [done EXCEPT !.checks = @ + 1] IN
         IF outcomes[i + 1] THEN [checked EXCEPT !.seen = TRUE]
         ELSE IF i < maxRetries - 1
              THEN VerifySecret(i + 1, delay * 2, outcomes,
                                [checked EXCEPT !.slept = Append(@, delay)])
              ELSE VerifySecret(i + 1, delay, outcomes, checked)

\* What the `get secret` commands of one loop may answer.
CheckOutcomes ==
    [1..maxRetries -> BOOLEAN]

\* GenerateKeys, writeKeyFile(privateKeyFile, privateKey): whether the call got
\* as far as writing /tmp/<vm>-id_rsa.  It did when the secret was applied or
\* the old secret was deleted; a call that failed with both keys on the pod
\* failed before the write (reading a key) or after it (the secret's YAML, the
\* apply).  Nothing in the call removes the file; the secret's YAML file is
\* removed right after the apply.
KeyFileWritten(readable, secretOk, lost) ==
    IF secretOk \/ lost THEN {TRUE}
    ELSE IF readable THEN BOOLEAN
    ELSE {FALSE}

\* SSHManager.GenerateKeys: probe for the key files (a failed probe counts as
\* "no keys"); without them remove leftovers and run ssh-keygen; read both
\* keys; delete the secret if there is one and apply a new one; then look
\* for the secret up to maxRetries times.  The loop never fails the call.
GenerateKeys(at, next, fail) ==
    /\ pc = at
    /\ LET up == srcPod = "Running" IN
       \E probeOk \in Outcomes(up) :
         LET keysExist == probeOk /\ keys # NoKey
             used == Fault(up, probeOk)
         IN \E genOk \in (IF keysExist THEN {TRUE} ELSE OutcomesAfter(up, used)) :
              \E secretOk \in OutcomesAfter(up /\ genOk, used + Fault(up, genOk)) :
                \E lost \in {l \in BOOLEAN : l => (up /\ genOk /\ ~secretOk)} :
                  \E outcomes \in CheckOutcomes, wrote \in KeyFileWritten(up /\ genOk, secretOk, lost) :
                    LET applied == genOk /\ secretOk
                        before == used + Fault(up, genOk) + Fault(up /\ genOk, secretOk)
                        loop == IF applied
                                THEN VerifySecret(0, retryDelay, outcomes, NoChecks)
                                ELSE NoChecks
                        missed == IF applied /\ ~outcomes[1] THEN 1 ELSE 0
                    IN
                    /\ applied => \A k \in 1..maxRetries :
                                     k > loop.checks => outcomes[k]
                    /\ ~applied => \A k \in 1..maxRetries : outcomes[k]
                    /\ missed = 1 => faults + before < MaxFaults
                    /\ faults' = faults + before + missed
                    /\ keys' = IF ~up \/ keysExist THEN keys
                               ELSE IF genOk THEN NewKey ELSE NoKey
                    /\ secret' = IF secretOk THEN keys'
                                 ELSE IF lost THEN NoKey ELSE secret
                    /\ secretChecks' = loop
                    /\ privateKeyFile' = IF wrote THEN keys' ELSE privateKeyFile
                    /\ pc' = IF applied /\ ReturnsAfterVerify(loop) THEN next ELSE fail
                    /\ Emit("keys", IF applied /\ ReturnsAfterVerify(loop)
                                    THEN "ok" ELSE "err")
    /\ UNCHANGED <<cmd, runs, nl, dryRun, cfg, sizing, result, polls, vmVars,
                   jobVars, srcPod, dstPod, dstSvc, authKeys, mounted, copied,
                   exported, vmDef, imported, atStart, checkVars>>

\* SSHManager.SetupDestinationAuth: copy the public key file into the
\* destination replicator's authorized_keys.
SetupDestinationAuthOK(ok) ==
    /\ faults' = faults + Fault(dstPod = "Running" /\ keys # NoKey, ok)
    /\ authKeys' = IF ok THEN keys ELSE authKeys

\* ---------------------------------------------- SyncManager (replication)
\* SyncManager.PerformFinalSync, first command: create job --from=cronjob/...
CreateFinalJob(at, next, fail) ==
    /\ pc = at
    /\ \E ok \in Outcomes(cron # "absent" /\ finalJob = "absent") :
         /\ faults' = faults + Fault(cron # "absent" /\ finalJob = "absent", ok)
         /\ IF ok
            THEN /\ finalJob' = "running" /\ pc' = next
                 /\ Emit("final_create", "ok")
            ELSE /\ pc' = fail /\ Emit("final_create", "err")
                 /\ UNCHANGED finalJob
    /\ UNCHANGED <<runVars, result, polls, vmVars, cron, periodic, podVars, defVars,
                   checkVars>>

\* A final sync that drops the error of its wait.
WaitFinalJobUnchecked(at, next, fail) ==
    /\ pc = at
    /\ \E ok \in Outcomes(TRUE) :
         /\ faults' = faults + Fault(TRUE, ok)
         /\ ok => finalJob = "complete"
         /\ pc' = next
         /\ Emit("final_wait", IF ok THEN "ok" ELSE "err")
    /\ UNCHANGED <<runVars, result, polls, vmVars, jobVars, podVars, defVars, checkVars>>

\* The CLI's `wait` takes a negative --timeout as one week.  Counted in the
\* intervals of the VM-status polls that is later than any of their deadlines.
WeekPolls ==
    MaxPolls + 1

\* SyncManager.PerformFinalSync, second command: wait job --for=condition=complete
\* --timeout=-1m.  The call blocks while the job is not complete; it returns
\* when the job is complete, when the wait breaks, or when the CLI gives up.
WaitFinalJob(at, next, fail) ==
    /\ pc = at
    /\ \/ /\ finalJob = "complete"
          /\ pc' = next /\ polls' = 0
          /\ Emit("final_wait", "ok")
          /\ UNCHANGED faults
       \/ /\ faults < MaxFaults
          /\ faults' = faults + 1
          /\ pc' = fail /\ polls' = 0
          /\ Emit("final_wait", "err")
       \/ /\ finalJob # "complete" /\ polls < WeekPolls
          /\ polls' = polls + 1
          /\ UNCHANGED <<pc, log, faults>>
       \/ /\ finalJob # "complete" /\ polls >= WeekPolls
          /\ pc' = fail /\ polls' = 0
          /\ Emit("final_wait", "gave_up")
          /\ UNCHANGED faults
    /\ UNCHANGED <<runVars, result, vmVars, jobVars, podVars, defVars, checkVars>>

\* SyncManager.SuspendCronJob: patch cronjob {"spec":{"suspend":true}}
SuspendCronJob ==
    /\ pc = "v1Suspend"
    /\ \E ok \in Outcomes(cron # "absent") :
         /\ faults' = faults + Fault(cron # "absent", ok)
         /\ IF ok
            THEN /\ cron' = "suspended" /\ pc' = "v1StopVM"
                 /\ Emit("suspend", "ok")
            ELSE /\ pc' = "v1Fail" /\ Emit("suspend", "err")
                 /\ UNCHANGED cron
    /\ UNCHANGED <<runVars, result, polls, vmVars, finalJob, periodic, podVars, defVars,
                   checkVars>>

\* ------------------------------------------- migrate (cmd/kubevirt-migrator)
\* A final check that reads both statuses and goes on whatever it read.
performFinalCheckErrorsIgnored ==
    /\ pc = "finalCheck"
    /\ pc' = "stopVM"
    /\ UNCHANGED <<runVars, result, faults, polls, log, vmVars, jobVars, podVars,
                   defVars, checkVars>>

\* performFinalCheck: reads the status of the source VM, then of the destination
\* VM; either read failing is returned, the statuses read are only logged.
performFinalCheck ==
    /\ pc = "finalCheck"
    /\ \E sOk \in Outcomes(srcStatus # "Absent") :
         LET s == GetVMStatus(srcStatus, sOk) IN
         \E dOk \in OutcomesAfter(dstStatus # "Absent", Fault(srcStatus # "Absent", sOk)) :
           LET d == GetVMStatus(dstStatus, dOk) IN
           /\ faults' = faults + Fault(srcStatus # "Absent", sOk)
                        + (IF s.ok THEN Fault(dstStatus # "Absent", dOk) ELSE 0)
           /\ pc' = IF s.ok /\ d.ok THEN "stopVM" ELSE "fail"
    /\ UNCHANGED <<runVars, result, polls, log, vmVars, jobVars, podVars, defVars,
                   checkVars>>

\* runMigrate: the suspend after the final sync, whose failure is only logged.
SuspendAfterFinalSync ==
    /\ pc = "suspend"
    /\ \E ok \in Outcomes(cron # "absent") :
         /\ faults' = faults + Fault(cron # "absent", ok)
         /\ IF ok
            THEN /\ cron' = "suspended" /\ Emit("suspend", "ok")
            ELSE /\ Emit("suspend", "err") /\ UNCHANGED cron
    /\ pc' = "startVM"
    /\ UNCHANGED <<runVars, result, polls, vmVars, finalJob, periodic, podVars, defVars,
                   checkVars>>

\* A runMigrate that returns the error of a cleanup.
CleanupErrorReturned ==
    /\ pc \in {"cleanupSrc", "cleanupDst"}
    /\ \E probe \in Probes(pc = "cleanupDst") :
       \E failed \in DeleteFailures(Attempted(pc = "cleanupDst", probe),
                                     Cardinality({k \in DOMAIN probe : probe[k] # "ok"})) :
         /\ CleanupMigrationResources(pc = "cleanupDst", probe, failed)
         /\ IF failed # {} THEN Return("err")
            ELSE IF pc = "cleanupSrc" THEN pc' = "cleanupDst" /\ UNCHANGED result
            ELSE Return("ok")
    /\ UNCHANGED <<runVars, polls, vmVars, defVars, checkVars>>

\* runMigrate: both cleanups, their errors only logged, then success.
CleanupAndReturn ==
    /\ pc \in {"cleanupSrc", "cleanupDst"}
    /\ \E probe \in Probes(pc = "cleanupDst") :
       \E failed \in DeleteFailures(Attempted(pc = "cleanupDst", probe),
                                     Cardinality({k \in DOMAIN probe : probe[k] # "ok"})) :
         CleanupMigrationResources(pc = "cleanupDst", probe, failed)
    /\ IF pc = "cleanupSrc"
       THEN pc' = "cleanupDst" /\ UNCHANGED result
       ELSE Return("ok")
    /\ UNCHANGED <<runVars, polls, vmVars, defVars, checkVars>>

\* runMigrate of part_000 (the cluster-client snapshot).
runMigrate ==
    \/ performFinalCheck
    \/ StopVM("src", "stopVM", "waitStopped", "fail", "stop_src")
    \/ WaitForVMStatus("src", "Stopped", "waitStopped", "finalCreate", "fail",
                       "src_status")
    \/ CreateFinalJob("finalCreate", "finalWait", "fail")
    \/ WaitFinalJob("finalWait", "suspend", "fail")
    \/ SuspendAfterFinalSync
    \/ StartVM("dst", "startVM", "waitRunning", "fail", "start_dst")
    \/ WaitForVMStatus("dst", "Running", "waitRunning", "cleanupSrc", "fail",
                       "dst_status")
    \/ CleanupAndReturn

\* stopSourceVM / startDestVM: virtctl stop|start <vm>
Virtctl(side, start, at, next, event) ==
    /\ pc = at
    /\ LET def == IF side = "src" THEN srcDef ELSE dstDef
           exists == (IF side = "src" THEN srcStatus ELSE dstStatus) # "Absent"
           new == IF start THEN StartPatch(def, def.runStrategy # "absent")
                           ELSE StopPatch(def, def.runStrategy # "absent")
       IN \E ok \in Outcomes(exists) :
            /\ faults' = faults + Fault(exists, ok)
            /\ srcDef' = IF ok /\ side = "src" THEN new ELSE srcDef
            /\ dstDef' = IF ok /\ side = "dst" THEN new ELSE dstDef
            /\ pc' = IF ok THEN next ELSE "v1Fail"
            /\ Emit(event, IF ok THEN "ok" ELSE "err")
    /\ UNCHANGED <<runVars, result, polls, srcStatus, dstStatus, jobVars, podVars,
                   defVars, checkVars>>

\* waitForSourceVMStop / waitForDestVMStart: loop on the custom-columns status
\* column until it equals the wanted literal; a failed read is returned.
WaitLoop(side, expected, at, next, event) ==
    /\ pc = at
    /\ LET status == IF side = "src" THEN srcStatus ELSE dstStatus IN
       \E ok \in Outcomes(status # "Absent") :
         /\ faults' = faults + Fault(status # "Absent", ok)
         /\ IF ~ok THEN pc' = "v1Fail" /\ UNCHANGED log
            ELSE IF Out(status, FALSE) = Lit(expected)
                 THEN pc' = next /\ Emit(event, status)
                 ELSE UNCHANGED <<pc, log>>
    /\ UNCHANGED <<runVars, result, polls, vmVars, jobVars, podVars, defVars, checkVars>>

\* cleanup: six deletes, each failure only logged.
cleanup ==
    /\ pc = "v1Cleanup"
    /\ \E failed \in DeleteFailures(CleanupSet(FALSE) \cup CleanupSet(TRUE), 0) :
         /\ faults' = faults + Cardinality(failed)
         /\ Deleted((CleanupSet(FALSE) \cup CleanupSet(TRUE)) \ failed)
    /\ Return("ok")
    /\ UNCHANGED <<runVars, polls, log, vmVars, defVars, checkVars>>

\* runMigrate of migrate.go (the earlier, executor-only snapshot).
runMigrateV1 ==
    \/ SuspendCronJob
    \/ Virtctl("src", FALSE, "v1StopVM", "v1WaitStopped", "stop_src")
    \/ WaitLoop("src", "Stopped", "v1WaitStopped", "v1FinalCreate", "src_status")
    \/ CreateFinalJob("v1FinalCreate", "v1FinalWait", "v1Fail")
    \/ WaitFinalJob("v1FinalWait", "v1StartVM", "v1Fail")
    \/ Virtctl("dst", TRUE, "v1StartVM", "v1WaitRunning", "start_dst")
    \/ WaitLoop("dst", "Running", "v1WaitRunning", "v1Cleanup", "dst_status")
    \/ cleanup

\* ------------------------------------------- SSHFSProvider (replication)
\* Error texts, word by word; the wrapped command error is the last word.
TcpFailedMsg ==
    <<"TCP", "connectivity", "test", "failed", ":", "cannot", "connect", "to",
      "host", ":", "port", ":", "exit-status">>
WriteFailedMsg ==
    <<"source", "directory", "write", "permission", "check", "failed", "-",
      "cannot", "write", "to", "/data/simg", ":", "exit-status">>
SshfsFailedMsg ==
    <<"SSHFS", "command", "not", "available", "in", "the", "replicator", "pod",
      ":", "exit-status">>
SshfsMissingMsg ==
    <<"SSHFS", "command", "not", "available", "in", "the", "replicator", "pod",
      "-", "please", "install", "sshfs", "package">>
NoError ==
    <<>>

\* strings.Contains
Contains(str, substr) ==
    \E i \in 0..(Len(str) - Len(substr)) :
        SubSeq(str, i + 1, i + Len(substr)) = substr

\* What can go wrong in the composite probe: nothing, or one of its commands.
SubProbeOutcomes ==
    {"none", "tcp", "write", "sshfs", "sshfs-missing"}

\* SSHFSProvider.CheckConnectivity: the three commands in order, returning at
\* the first that fails; `ran` are the sub-probes whose command was run.
ProviderCheckConnectivity(outcome) ==
    CASE outcome = "tcp" ->
           [err |-> TcpFailedMsg, ran |-> {"TCP Connection"}]
      [] outcome = "write" ->
           [err |-> WriteFailedMsg, ran |-> {"TCP Connection", "Write Permissions"}]
      [] outcome = "sshfs" ->
           [err |-> SshfsFailedMsg,
            ran |-> {"TCP Connection", "Write Permissions", "SSHFS Available"}]
      [] outcome = "sshfs-missing" ->
           [err |-> SshfsMissingMsg,
            ran |-> {"TCP Connection", "Write Permissions", "SSHFS Available"}]
      [] OTHER ->
           [err |-> NoError,
            ran |-> {"TCP Connection", "Write Permissions", "SSHFS Available"}]

\* The probe name of the sub-probe an outcome fails.
FailedSubProbe(outcome) ==
    CASE outcome = "tcp" -> "TCP Connection"
      [] outcome = "write" -> "Write Permissions"
      [] OTHER -> "SSHFS Available"

\* `ls -la /data/dimg`, word by word: a listing that shows the marker, and one
\* of an empty directory.
ListingWithMarker ==
    <<"total", "4", "drwxr-xr-x", "2", "root", "root", "4096", "simg">>
EmptyListing ==
    <<"total", "0">>
ContentMarker ==
    <<"simg">>

\* How the listing command can end.
VerifyOutcomes ==
    {"ok", "cmd-failed", "no-marker"}

\* SSHFSProvider.VerifyMount, the command and what it printed.
ProviderVerifyMount(outcome) ==
    [cmdOk |-> outcome # "cmd-failed",
     output |-> CASE outcome = "ok" -> ListingWithMarker
                  [] outcome = "no-marker" -> EmptyListing
                  [] OTHER -> <<>>]

\* A verification that is content with any listing.
ListingAccepted(r) ==
    r.cmdOk

\* SSHFSProvider.VerifyMount: err == nil and strings.Contains(output, "simg")
MountVerified(r) ==
    r.cmdOk /\ Contains(r.output, ContentMarker)

\* The outcomes the listing command can have now.
VerifyOutcomesNow ==
    IF ~mounted THEN {"cmd-failed"}
    ELSE IF faults < MaxFaults THEN VerifyOutcomes
    ELSE {"ok"}

\* --------------------------------------------- CheckManager (connectivity)
TcpMarker ==
    <<"TCP", "connectivity", "test", "failed">>
WriteMarker ==
    <<"Source", "directory", "write", "permission">>
SshfsMarker ==
    <<"SSHFS", "command", "not", "available">>

\* Composite results that blame every sub-probe for an error.
CompositeAllFailed(results, err) ==
    addCheckResult(
      addCheckResult(
        addCheckResult(results, "TCP Connection", err = NoError),
        "Write Permissions", err = NoError),
      "SSHFS Available", err = NoError)

\* CheckConnectivity, the composite's results: inferred from the error text.
CompositeResults(results, err) ==
    IF err # NoError
    THEN addCheckResult(
           addCheckResult(
             addCheckResult(results, "TCP Connection", ~Contains(err, TcpMarker)),
             "Write Permissions", ~Contains(err, WriteMarker)),
           "SSHFS Available", ~Contains(err, SshfsMarker))
    ELSE addCheckResult(
           addCheckResult(
             addCheckResult(results, "TCP Connection", TRUE),
             "Write Permissions", TRUE),
           "SSHFS Available", TRUE)

\* A recorded step that records the result and goes on whatever it was.
RecordAndGoOn(checkName, ok, next) ==
    /\ executed' = executed \cup {checkName}
    /\ checkResults' = addCheckResult(checkResults, checkName, ok)
    /\ pc' = next
    /\ UNCHANGED <<result, destVMStatus>>

\* One recorded step of CheckConnectivity after the cleanup was deferred:
\* record the result; on failure mark the rest and return through the cleanup.
Record(checkName, ok, next) ==
    /\ executed' = executed \cup {checkName}
    /\ IF ok
       THEN /\ checkResults' = addCheckResult(checkResults, checkName, TRUE)
            /\ pc' = next
            /\ UNCHANGED result
       ELSE /\ checkResults' =
                 markRemainingNotTested(addCheckResult(checkResults, checkName, FALSE))
            /\ pc' = "chkCleanup"
            /\ result' = "err"
    /\ UNCHANGED destVMStatus

\* An error return before the replicators exist.
CheckFail ==
    /\ pc = "chkFail"
    /\ checkResults' = markRemainingNotTested(checkResults)
    /\ Return("err")
    /\ UNCHANGED <<runVars, faults, polls, log, vmVars, jobVars, podVars, defVars,
                   executed, destVMStatus>>

CheckSourceVM ==
    /\ pc = "chkSrcVM"
    /\ \E ok \in Outcomes(srcStatus # "Absent") :
         /\ faults' = faults + Fault(srcStatus # "Absent", ok)
         /\ pc' = IF GetVMStatus(srcStatus, ok).ok THEN "chkDstVM" ELSE "chkFail"
    /\ UNCHANGED <<runVars, result, polls, log, vmVars, jobVars, podVars, defVars,
                   checkVars>>

CheckDestVM ==
    /\ pc = "chkDstVM"
    /\ \E ok \in Outcomes(dstStatus # "Absent") :
         LET d == GetVMStatus(dstStatus, ok) IN
         /\ faults' = faults + Fault(dstStatus # "Absent", ok)
         /\ destVMStatus' = d.status
         /\ pc' = IF d.ok THEN "chkStop" ELSE "chkExport"
    /\ UNCHANGED <<runVars, result, polls, log, vmVars, jobVars, podVars, defVars,
                   checkResults, executed>>

\* if destVMStatus != "Stopped" { StopVM } -- the branch not taken.
CheckSkipStop ==
    /\ pc = "chkStop" /\ destVMStatus = Lit("Stopped")
    /\ pc' = "chkWait"
    /\ UNCHANGED <<runVars, result, faults, polls, log, vmVars, jobVars, podVars,
                   defVars, checkVars>>

\* setupTestReplicators failed: the three names share its result.
SetupFailed(ran) ==
    /\ executed' = executed \cup ran
    /\ checkResults' =
         markRemainingNotTested(
           addCheckResult(
             addCheckResult(
               addCheckResult(checkResults, "Source Pod", FALSE),
               "Destination Pod", FALSE),
             "SSH Service", FALSE))
    /\ Return("err")

\* setupTestReplicators, the three RenderAndApply calls; `bad` is the one that
\* fails (0: none).
SetupApply ==
    /\ pc = "chkSetup"
    /\ \E bad \in (IF faults < MaxFaults THEN 0..3 ELSE {0}) :
         /\ faults' = faults + (IF bad = 0 THEN 0 ELSE 1)
         /\ srcPod' = IF bad # 1 /\ srcPod = "absent" THEN "Pending" ELSE srcPod
         /\ dstPod' = IF bad \in {0, 3} /\ dstPod = "absent" THEN "Pending" ELSE dstPod
         /\ dstSvc' = IF bad = 0 THEN TRUE ELSE dstSvc
         /\ IF bad = 0
            THEN /\ pc' = "chkWaitSrcPod"
                 /\ executed' =
                      executed \cup {"Source Pod", "Destination Pod", "SSH Service"}
                 /\ UNCHANGED <<result, checkResults>>
            ELSE SetupFailed(CASE bad = 1 -> {"Source Pod"}
                               [] bad = 2 -> {"Source Pod", "Destination Pod"}
                               [] OTHER -> {"Source Pod", "Destination Pod",
                                            "SSH Service"})
    /\ UNCHANGED <<runVars, polls, log, vmVars, jobVars, keys, secret, authKeys,
                   mounted, copied, defVars, destVMStatus>>

\* setupTestReplicators, WaitForPod(..., "ready", 60s): returns when the pod
\* is ready, or fails.
SetupWaitForPod(side) ==
    /\ pc = IF side = "src" THEN "chkWaitSrcPod" ELSE "chkWaitDstPod"
    /\ \E ok \in Outcomes(TRUE) :
         /\ faults' = faults + Fault(TRUE, ok)
         /\ IF ok
            THEN /\ (IF side = "src" THEN srcPod ELSE dstPod) = "Running"
                 /\ pc' = IF side = "src" THEN "chkWaitDstPod" ELSE "chkKeys"
                 /\ checkResults' =
                      IF side = "src" THEN checkResults
                      ELSE addCheckResult(
                             addCheckResult(
                               addCheckResult(checkResults, "Source Pod", TRUE),
                               "Destination Pod", TRUE),
                             "SSH Service", TRUE)
                 /\ UNCHANGED <<result, executed>>
            ELSE SetupFailed({})
    /\ UNCHANGED <<runVars, polls, log, vmVars, jobVars, podVars, defVars, destVMStatus>>

CheckKeysFailed ==
    /\ pc = "chkKeysFail"
    /\ Record("SSH Auth", FALSE, "chkCleanup")
    /\ UNCHANGED <<runVars, faults, polls, log, vmVars, jobVars, podVars, defVars>>

CheckDestinationAuth ==
    /\ pc = "chkAuth"
    /\ \E ok \in Outcomes(dstPod = "Running" /\ keys # NoKey) :
         /\ SetupDestinationAuthOK(ok)
         /\ Record("SSH Auth", ok, "chkNodePort")
    /\ UNCHANGED <<runVars, polls, log, vmVars, jobVars, srcPod, dstPod, dstSvc,
                   keys, secret, mounted, copied, defVars>>

\* GetNodePort, GetPodHostIP
CheckLookup(checkName, possible, at, next) ==
    /\ pc = at
    /\ \E ok \in Outcomes(possible) :
         /\ faults' = faults + Fault(possible, ok)
         /\ Record(checkName, ok, next)
    /\ UNCHANGED <<runVars, polls, log, vmVars, jobVars, podVars, defVars>>

\* mountProvider.CheckConnectivity and the three results read off its error.
CheckComposite ==
    /\ pc = "chkComposite"
    /\ \E outcome \in (IF srcPod # "Running" THEN {"tcp"}
                        ELSE IF faults < MaxFaults THEN SubProbeOutcomes
                        ELSE {"none"}) :
         LET r == ProviderCheckConnectivity(outcome) IN
         /\ faults' = faults + (IF outcome # "none" /\ srcPod = "Running" THEN 1 ELSE 0)
         /\ executed' = executed \cup r.ran
         /\ Emit("composite", outcome)
         /\ IF r.err # NoError
            THEN /\ checkResults' =
                      markRemainingNotTested(CompositeResults(checkResults, r.err))
                 /\ pc' = "chkCleanup"
                 /\ result' = "err"
            ELSE /\ checkResults' = CompositeResults(checkResults, r.err)
                 /\ pc' = "chkMount"
                 /\ UNCHANGED result
    /\ UNCHANGED <<runVars, polls, vmVars, jobVars, podVars, defVars, destVMStatus>>

\* The sshfs mount needs both pods, the service and an authorized key.
CanMount ==
    /\ srcPod = "Running" /\ dstPod = "Running" /\ dstSvc
    /\ keys # NoKey /\ authKeys = keys

CheckMount ==
    /\ pc = "chkMount"
    /\ \E ok \in Outcomes(CanMount) :
         /\ faults' = faults + Fault(CanMount, ok)
         /\ mounted' = (mounted \/ ok)
         /\ Record("Mount", ok, "chkVerify")
    /\ UNCHANGED <<runVars, polls, log, vmVars, jobVars, srcPod, dstPod, dstSvc,
                   keys, secret, authKeys, copied, defVars>>

\* VerifyMount; when it fails Unmount is tried and its result dropped.
CheckVerifyMount ==
    /\ pc = "chkVerify"
    /\ \E outcome \in VerifyOutcomesNow :
         /\ faults' = faults + (IF mounted /\ outcome # "ok" THEN 1 ELSE 0)
         /\ IF MountVerified(ProviderVerifyMount(outcome))
            THEN /\ checkResults' = addCheckResult(checkResults, "Mount Verification", TRUE)
                 /\ executed' = executed \cup {"Mount Verification"}
                 /\ pc' = "chkUnmount"
                 /\ UNCHANGED <<result, mounted>>
            ELSE /\ checkResults' =
                      markRemainingNotTested(
                        addCheckResult(checkResults, "Mount Verification", FALSE))
                 /\ executed' = executed \cup {"Mount Verification", "Unmount"}
                 /\ mounted' = FALSE
                 /\ pc' = "chkCleanup"
                 /\ result' = "err"
    /\ UNCHANGED <<runVars, polls, log, vmVars, jobVars, srcPod, dstPod, dstSvc,
                   keys, secret, authKeys, copied, defVars, destVMStatus>>

\* An Unmount whose failure ends the check with an error.
CheckUnmountFatal ==
    /\ pc = "chkUnmount"
    /\ \E ok \in Outcomes(mounted) :
         /\ faults' = faults + Fault(mounted, ok)
         /\ mounted' = (mounted /\ ~ok)
         /\ checkResults' = addCheckResult(checkResults, "Unmount", ok)
         /\ Emit("unmount", IF ok THEN "ok" ELSE "err")
         /\ result' = IF ok THEN "ok" ELSE "err"
    /\ executed' = executed \cup {"Unmount"}
    /\ pc' = "chkCleanup"
    /\ UNCHANGED <<runVars, polls, vmVars, jobVars, srcPod, dstPod, dstSvc,
                   keys, secret, authKeys, copied, defVars, destVMStatus>>

\* Unmount: recorded, and not fatal.
CheckUnmount ==
    /\ pc = "chkUnmount"
    /\ \E ok \in Outcomes(mounted) :
         /\ faults' = faults + Fault(mounted, ok)
         /\ mounted' = (mounted /\ ~ok)
         /\ checkResults' = addCheckResult(checkResults, "Unmount", ok)
         /\ Emit("unmount", IF ok THEN "ok" ELSE "err")
    /\ executed' = executed \cup {"Unmount"}
    /\ pc' = "chkCleanup"
    /\ result' = "ok"
    /\ UNCHANGED <<runVars, polls, vmVars, jobVars, srcPod, dstPod, dstSvc,
                   keys, secret, authKeys, copied, defVars, destVMStatus>>

\* The deferred cleanupTestReplicators: the source side, then, unless that
\* returned an error, the destination side; its error is only logged.
cleanupTestReplicators ==
    /\ pc = "chkCleanup"
    /\ \E failed \in SUBSET {"job", "cronjob", "srcpod", "secret", "dstpod", "svc"} :
         LET srcFailed == failed \cap CleanupSet(FALSE) # {} IN
         /\ failed \subseteq CleanupSet(FALSE) \cup CleanupSet(TRUE)
         /\ srcFailed => failed \cap CleanupSet(TRUE) = {}
         /\ Cardinality(failed) <= MaxFaults - faults
         /\ faults' = faults + Cardinality(failed)
         /\ Deleted(IF srcFailed
                    THEN CleanupSet(FALSE) \ failed
                    ELSE (CleanupSet(FALSE) \cup CleanupSet(TRUE)) \ failed)
         /\ log' = IF srcFailed
                   THEN Append(log, <<"cleanup_src", "err">>)
                   ELSE log \o <<(<<"cleanup_src", "ok">>),
                                 (<<"cleanup_dst",
                                    IF failed = {} THEN "ok" ELSE "err">>)>>
    /\ pc' = "idle"
    /\ UNCHANGED <<runVars, result, polls, vmVars, defVars, checkVars>>

\* CheckConnectivity
CheckConnectivity ==
    \/ CheckSourceVM
    \/ CheckDestVM
    \/ ExportVM("chkExport", "chkImport", "chkFail")
    \/ ImportVM(vmDef, "chkImport", "chkStop", "chkFail")
    \/ destVMStatus # Lit("Stopped")
         /\ StopVM("dst", "chkStop", "chkWait", "chkFail", "stop_dst")
    \/ CheckSkipStop
    \/ WaitForVMStatus("dst", "Stopped", "chkWait", "chkSetup", "chkFail",
                       "dst_status")
    \/ CheckFail
    \/ SetupApply
    \/ SetupWaitForPod("src")
    \/ SetupWaitForPod("dst")
    \/ GenerateKeys("chkKeys", "chkAuth", "chkKeysFail")
    \/ CheckKeysFailed
    \/ CheckDestinationAuth
    \/ CheckLookup("NodePort", dstSvc, "chkNodePort", "chkHostIP")
    \/ CheckLookup("Host IP", dstPod = "Running", "chkHostIP", "chkComposite")
    \/ CheckComposite
    \/ CheckMount
    \/ CheckVerifyMount
    \/ CheckUnmount
    \/ cleanupTestReplicators

\* ---------------------------------------------- init (cmd/kubevirt-migrator)
InitSourceVM ==
    /\ pc = "initSrcVM"
    /\ \E ok \in Outcomes(srcStatus # "Absent") :
         /\ faults' = faults + Fault(srcStatus # "Absent", ok)
         /\ pc' = IF GetVMStatus(srcStatus, ok).ok THEN "initDstVM" ELSE "fail"
         /\ Emit("src_vm", IF GetVMStatus(srcStatus, ok).ok THEN "ok" ELSE "err")
    /\ UNCHANGED <<runVars, result, polls, vmVars, jobVars, podVars, defVars,
                   checkVars>>

\* A check that takes success for failure.
DestVMMissing(d) ==
    ~d.ok

\* createDestVM: err == nil
DestVMExists(d) ==
    d.ok

\* A check that takes every error for "no such VM".
AnyErrorIsNotFound(d) ==
    ~d.ok

\* createDestVM: strings.Contains(err.Error(), "NotFound")
DestVMNotFound(d) ==
    d.notFound

\* createDestVM, the existence check: nothing to do, go on to create, or fail.
InitDestVM ==
    /\ pc = "initDstVM"
    /\ \E ok \in Outcomes(dstStatus # "Absent") :
         LET d == GetVMStatus(dstStatus, ok) IN
         /\ faults' = faults + Fault(dstStatus # "Absent", ok)
         /\ pc' = IF DestVMExists(d) THEN "initSrcPod"
                  ELSE IF DestVMNotFound(d) THEN "initExport"
                  ELSE "fail"
         /\ Emit("dst_vm", IF DestVMExists(d) THEN "exists"
                           ELSE IF DestVMNotFound(d) THEN "notfound"
                           ELSE "err")
    /\ UNCHANGED <<runVars, result, polls, vmVars, jobVars, podVars, defVars,
                   checkVars>>

\* `yq e .spec.runStrategy <file>`: the value, or null, on a line.
YqRunStrategy(def) ==
    Out(IF def.runStrategy = "absent" THEN "null" ELSE def.runStrategy, FALSE)

\* init.go: runStrategyExists := err == nil && runStrategyOutput != "" && runStrategyOutput != "null"
YqRunStrategyExists(ok, out) ==
    ok /\ out # Lit("") /\ out # Lit("null")

\* createDestVM, the halting edit of the exported file with yq.
InitHaltDefinition ==
    /\ pc = "initPatch"
    /\ \E probeOk \in Outcomes(TRUE) :
         \E patchOk \in OutcomesAfter(TRUE, Fault(TRUE, probeOk)) :
           /\ faults' = faults + Fault(TRUE, probeOk) + Fault(TRUE, patchOk)
           /\ IF patchOk
              THEN /\ vmDef' = StopPatch(vmDef,
                                  YqRunStrategyExists(probeOk, YqRunStrategy(vmDef)))
                   /\ pc' = "initImport"
              ELSE /\ pc' = "fail"
                   /\ UNCHANGED vmDef
           /\ Emit("halt", IF patchOk THEN "ok" ELSE "err")
    /\ UNCHANGED <<runVars, result, polls, vmVars, jobVars, podVars, exported,
                   imported, atStart, privateKeyFile, checkVars>>

\* createPodAndWait: nothing to do when the pod is there; else apply it.
CreatePod(side, at, waitAt, next) ==
    /\ pc = at
    /\ LET pod == IF side = "src" THEN srcPod ELSE dstPod IN
       \E getOk \in Outcomes(pod # "absent") :
         \E applyOk \in OutcomesAfter(pod = "absent", 0) :
           /\ faults' = faults + Fault(pod # "absent", getOk) + Fault(pod = "absent", applyOk)
           /\ srcPod' = IF side = "src" /\ applyOk THEN "Pending" ELSE srcPod
           /\ dstPod' = IF side = "dst" /\ applyOk THEN "Pending" ELSE dstPod
           /\ pc' = IF getOk THEN next ELSE IF applyOk THEN waitAt ELSE "fail"
           /\ Emit(IF side = "src" THEN "src_pod" ELSE "dst_pod",
                   IF getOk THEN "exists" ELSE IF applyOk THEN "applied" ELSE "err")
    /\ UNCHANGED <<runVars, result, polls, vmVars, jobVars, dstSvc, keys,
                   secret, authKeys, mounted, copied, defVars, checkVars>>

\* createPodAndWait: wait pod --for=condition=Ready --timeout=-1m
WaitPodReady(side, at, next) ==
    /\ pc = at
    /\ \E ok \in Outcomes(TRUE) :
         /\ faults' = faults + Fault(TRUE, ok)
         /\ ok => (IF side = "src" THEN srcPod ELSE dstPod) = "Running"
         /\ pc' = IF ok THEN next ELSE "fail"
         /\ Emit(IF side = "src" THEN "src_pod" ELSE "dst_pod",
                 IF ok THEN "ready" ELSE "err")
    /\ UNCHANGED <<runVars, result, polls, vmVars, jobVars, podVars, defVars,
                   checkVars>>

\* createDestReplicator: the service is applied every time.
InitDestService ==
    /\ pc = "initSvc"
    /\ \E ok \in Outcomes(TRUE) :
         /\ faults' = faults + Fault(TRUE, ok)
         /\ dstSvc' = (dstSvc \/ ok)
         /\ pc' = IF ok THEN "initAuth" ELSE "fail"
         /\ Emit("svc", IF ok THEN "ok" ELSE "err")
    /\ UNCHANGED <<runVars, result, polls, vmVars, jobVars, srcPod, dstPod,
                   keys, secret, authKeys, mounted, copied, defVars, checkVars>>

InitDestinationAuth ==
    /\ pc = "initAuth"
    /\ \E ok \in Outcomes(dstPod = "Running" /\ keys # NoKey) :
         /\ SetupDestinationAuthOK(ok)
         /\ pc' = IF ok THEN "initSync" ELSE "fail"
         /\ Emit("auth", IF ok THEN "ok" ELSE "err")
    /\ UNCHANGED <<runVars, result, polls, vmVars, jobVars, srcPod, dstPod,
                   dstSvc, keys, secret, mounted, copied, defVars, checkVars>>

\* SyncManager.GetDestinationInfo: GetNodePort, then GetPodHostIP
CanGetDestinationInfo ==
    dstSvc /\ dstPod = "Running"

\* One command of PerformInitialSync that changes nothing it is not told to.
SyncStep(possible, at, next, event) ==
    /\ pc = at
    /\ \E ok \in Outcomes(possible) :
         /\ faults' = faults + Fault(possible, ok)
         /\ pc' = IF ok THEN next ELSE "fail"
         /\ Emit(event, IF ok THEN "ok" ELSE "err")
    /\ UNCHANGED <<runVars, result, polls, vmVars, jobVars, srcPod, dstPod, dstSvc,
                   keys, secret, authKeys, defVars, checkVars>>

\* SyncManager.PerformInitialSync: nothing in a dry run; else destination
\* info, connectivity, mount, verification, copy, each fatal.
InitialSyncDryRun ==
    /\ pc = "initSync" /\ dryRun
    /\ pc' = "initCron"
    /\ Emit("sync", "skipped")
    /\ UNCHANGED <<runVars, result, faults, polls, vmVars, jobVars, podVars,
                   defVars, checkVars>>

\* An initial sync that asks for the destination info in a dry run too.
InitialSyncInfoInDryRun ==
    /\ SyncStep(CanGetDestinationInfo, "initSync", "initConn", "info")
    /\ UNCHANGED <<mounted, copied>>

InitialSyncInfo ==
    /\ ~dryRun
    /\ SyncStep(CanGetDestinationInfo, "initSync", "initConn", "info")
    /\ UNCHANGED <<mounted, copied>>

InitialSyncConnectivity ==
    /\ pc = "initConn"
    /\ \E outcome \in (IF srcPod # "Running" THEN {"tcp"}
                        ELSE IF faults < MaxFaults THEN SubProbeOutcomes
                        ELSE {"none"}) :
         /\ faults' = faults + (IF outcome # "none" /\ srcPod = "Running" THEN 1 ELSE 0)
         /\ pc' = IF ProviderCheckConnectivity(outcome).err = NoError
                  THEN "initMount" ELSE "fail"
         /\ Emit("composite", outcome)
    /\ UNCHANGED <<runVars, result, polls, vmVars, jobVars, podVars, defVars,
                   checkVars>>

InitialSyncMount ==
    /\ SyncStep(CanMount, "initMount", "initVerify", "mount")
    /\ mounted' = (mounted \/ pc' = "initVerify")
    /\ UNCHANGED copied

InitialSyncVerify ==
    /\ pc = "initVerify"
    /\ \E outcome \in VerifyOutcomesNow :
         /\ faults' = faults + (IF mounted /\ outcome # "ok" THEN 1 ELSE 0)
         /\ pc' = IF MountVerified(ProviderVerifyMount(outcome))
                  THEN "initCopy" ELSE "fail"
         /\ Emit("verify", outcome)
    /\ UNCHANGED <<runVars, result, polls, vmVars, jobVars, podVars, defVars,
                   checkVars>>

\* A sync that goes on to the cron job whatever the copy command returned.
InitialSyncCopyUnchecked ==
    /\ pc = "initCopy"
    /\ \E ok \in Outcomes(srcPod = "Running") :
         /\ faults' = faults + Fault(srcPod = "Running", ok)
         /\ copied' = (copied \/ ok)
         /\ Emit("copy", IF ok THEN "ok" ELSE "err")
    /\ pc' = "initCron"
    /\ UNCHANGED <<runVars, result, polls, vmVars, jobVars, srcPod, dstPod, dstSvc,
                   keys, secret, authKeys, mounted, defVars, checkVars>>

\* SimpleBlockCopyProvider.CopyData: the command is `cp ... & progress -m`, so
\* what it returns tells that the copy was launched.
InitialSyncCopy ==
    /\ SyncStep(srcPod = "Running", "initCopy", "initCron", "copy")
    /\ copied' = (copied \/ pc' = "initCron")
    /\ UNCHANGED mounted

\* A SetupCronJob that gives up when the sizing had to fall back.
SetupCronJobStrictSizing ==
    /\ pc = "initCron"
    /\ \E ok \in (IF dryRun THEN {TRUE} ELSE Outcomes(CanGetDestinationInfo)) :
         LET infoFault == IF dryRun THEN 0 ELSE Fault(CanGetDestinationInfo, ok)
             sized == ok /\ ~dryRun
         IN \E measured \in (IF sized
                             THEN OutcomesAfter(srcStatus = "Running", infoFault)
                             ELSE {FALSE}) :
              \E usedBytes \in MeasuredUsages, pvcFound \in BOOLEAN, pvcSize \in PVCSizes :
                LET done == ok /\ (sized => measured) IN
                /\ ~measured => usedBytes = Bytes(12 * 1024, 0)
                /\ (measured \/ ~sized) => ~pvcFound
                /\ ~pvcFound => pvcSize = <<>>
                /\ faults' = faults + infoFault
                               + (IF sized THEN Fault(srcStatus = "Running", measured)
                                  ELSE 0)
                /\ sizing' = IF sized
                             THEN SizeResources(measured, usedBytes, pvcFound, pvcSize)
                             ELSE NoSizing
                /\ cron' = IF sized /\ done /\ cron = "absent" THEN "active" ELSE cron
                /\ IF done THEN Return("ok") ELSE pc' = "fail" /\ UNCHANGED result
                /\ Emit("cron", IF ~done THEN "err" ELSE IF dryRun THEN "skipped" ELSE "ok")
    /\ UNCHANGED <<cmd, runs, nl, dryRun, cfg, secretChecks, polls, vmVars,
                   finalJob, periodic, podVars, defVars, checkVars>>

\* SyncManager.SetupCronJob, the last step of runInit: nothing in a dry run;
\* else destination info, the sizing of the job's resources, which cannot
\* fail the call, and then the cron job template is applied.
SetupCronJob ==
    /\ pc = "initCron"
    /\ \E ok \in (IF dryRun THEN {TRUE} ELSE Outcomes(CanGetDestinationInfo)) :
         LET infoFault == IF dryRun THEN 0 ELSE Fault(CanGetDestinationInfo, ok)
             sized == ok /\ ~dryRun
         IN \E measured \in (IF sized
                             THEN OutcomesAfter(srcStatus = "Running", infoFault)
                             ELSE {FALSE}) :
              \E usedBytes \in MeasuredUsages, pvcFound \in BOOLEAN, pvcSize \in PVCSizes :
                /\ ~measured => usedBytes = Bytes(12 * 1024, 0)
                /\ (measured \/ ~sized) => ~pvcFound
                /\ ~pvcFound => pvcSize = <<>>
                /\ faults' = faults + infoFault
                               + (IF sized THEN Fault(srcStatus = "Running", measured)
                                  ELSE 0)
                /\ sizing' = IF sized
                             THEN SizeResources(measured, usedBytes, pvcFound, pvcSize)
                             ELSE NoSizing
                /\ cron' = IF sized /\ cron = "absent" THEN "active" ELSE cron
                /\ IF ok THEN Return("ok") ELSE pc' = "fail" /\ UNCHANGED result
                /\ Emit("cron", IF ~ok THEN "err" ELSE IF dryRun THEN "skipped" ELSE "ok")
    /\ UNCHANGED <<cmd, runs, nl, dryRun, cfg, secretChecks, polls, vmVars,
                   finalJob, periodic, podVars, defVars, checkVars>>

\* runInit (the cluster-client snapshot) with createDestVM and createPodAndWait
runInit ==
    \/ InitSourceVM
    \/ InitDestVM
    \/ ExportVM("initExport", "initPatch", "fail")
    \/ InitHaltDefinition
    \/ ImportVM(vmDef, "initImport", "initWaitDst", "fail")
    \/ WaitForVMStatus("dst", "Stopped", "initWaitDst", "initSrcPod", "fail",
                       "dst_status")
    \/ CreatePod("src", "initSrcPod", "initSrcPodWait", "initKeys")
    \/ WaitPodReady("src", "initSrcPodWait", "initKeys")
    \/ GenerateKeys("initKeys", "initDstPod", "fail")
    \/ CreatePod("dst", "initDstPod", "initDstPodWait", "initSvc")
    \/ WaitPodReady("dst", "initDstPodWait", "initSvc")
    \/ InitDestService
    \/ InitDestinationAuth
    \/ InitialSyncDryRun
    \/ InitialSyncInfo
    \/ InitialSyncConnectivity
    \/ InitialSyncMount
    \/ InitialSyncVerify
    \/ InitialSyncCopy
    \/ SetupCronJob

Environment ==
    \/ VMConverges
    \/ FinalJobCompletes
    \/ PeriodicRunStarts
    \/ PeriodicRunEnds
    \/ PodStarts

Next ==
    \/ StartRun
    \/ ReturnError
    \/ runMigrate
    \/ runInit
    \/ runMigrateV1
    \/ CheckConnectivity
    \/ Environment

Spec ==
    Init /\ [][Next]_vars

\* The running command is one OS process that keeps executing: it takes its
\* next step whenever it has one.  Nothing obliges the clusters to change or
\* the operator to start another command.
FairSpec ==
    Spec /\ WF_vars(ReturnError \/ runMigrate \/ runInit \/ runMigrateV1
                      \/ CheckConnectivity)

\* --------------------------------------------- the calculator on its own
\* The largest usage handed to the calculator, in GiB.
MaxGiB ==
    30

\* The usedBytes CalculateResourcesFromUsage is called with: every whole GiB
\* up to MaxGiB, and around the thirds of a GiB where usedGB * 0.3 and
\* usedGB / 5 pass a whole number, each exactly, one byte above and one byte
\* below the next MiB.
UsageInputs ==
    {Bytes(g * 1024 + m, r) : g \in 0..MaxGiB, m \in {0, 341, 342, 682, 683},
                              r \in {0, 1, MiB - 1}}

\* Nothing is deployed and no command is running.
CalcInit ==
    /\ Init
    /\ nl = FALSE
    /\ srcDef = NoDef /\ dstDef = NoDef

\* CalculateResourcesFromUsage is called with a usage that is not below the
\* one of the call before.
Calculate ==
    /\ \E usedBytes \in UsageInputs :
         /\ BytesLeq(sizing.usedBytes, usedBytes)
         /\ sizing' = [source |-> "usage", usedBytes |-> usedBytes,
                       resources |-> CalculateResourcesFromUsage(usedBytes)]
    /\ UNCHANGED <<cmd, pc, result, runs, faults, polls, log, nl, dryRun, cfg,
                   secretChecks, vmVars, jobVars, podVars, defVars, checkVars>>

CalcNext ==
    Calculate

CalcSpec ==
    CalcInit /\ [][CalcNext]_vars

\* ------------------------------------------------------------ properties
\* Entry j of the trace has an earlier entry <<op, arg>>.
Earlier(op, arg, j) ==
    \E i \in 1..(j - 1) : log[i] = <<op, arg>>

Did(op, arg) ==
    \E i \in 1..Len(log) : log[i] = <<op, arg>>

Migrating ==
    cmd \in {"migrate", "migrateV1"}

\* C1: the final replication job is created only after the wait on the
\* source VM has read the status Stopped.
FinalJobOnlyAfterSourceStopped ==
    Migrating =>
        \A j \in 1..Len(log) :
            log[j][1] = "final_create" => Earlier("src_status", "Stopped", j)

FinalJobCreatedAfterStop ==
    /\ Migrating
    /\ Did("final_create", "ok")
    /\ Did("src_status", "Stopped")

\* C2: the destination VM is started only after the final job was created
\* and the wait for it returned without error; when either fails the command
\* returns an error and never issues the start.
StartOnlyAfterFinalSync ==
    Migrating =>
        /\ \A j \in 1..Len(log) :
              log[j][1] = "start_dst" =>
                  \E i \in 1..(j - 1) :
                      /\ log[i] = <<"final_wait", "ok">>
                      /\ Earlier("final_create", "ok", i)
        /\ (Did("final_create", "err") \/ Did("final_wait", "err")) =>
              /\ \A j \in 1..Len(log) : log[j][1] # "start_dst"
              /\ pc \in {"fail", "v1Fail", "idle"}
              /\ pc = "idle" => result = "err"

DestinationStartedAfterFinalSync ==
    /\ Migrating
    /\ Did("final_wait", "ok")
    /\ Did("start_dst", "ok")

\* C3: the periodic job is suspended before the stop request for the source
\* VM is issued.
SuspendedBeforeStopRequest ==
    Migrating =>
        \A j \in 1..Len(log) :
            log[j][1] = "stop_src" => Earlier("suspend", "ok", j)

\* runCheck got past its configuration, called CheckConnectivity, and the
\* call has returned.
CheckReturned ==
    cmd = "check" /\ pc = "idle" /\ result # "none" /\ Validate(cfg) = Nil

\* C4: once a check run has returned, with success or with an error at any
\* step, the result map has an entry for every declared probe name.
ResultMapComplete ==
    CheckReturned => ExpectedChecks \subseteq DOMAIN checkResults

CheckFailedBeforeFirstProbe ==
    /\ CheckReturned /\ result = "err"
    /\ executed = {}
    /\ ExpectedChecks \subseteq DOMAIN checkResults

\* C5: when a check run stops at a fatal failure, every probe that was not
\* executed in that run is recorded NotTested.
UnexecutedProbesNotTested ==
    (CheckReturned /\ result = "err") =>
        \A n \in ExpectedChecks \ executed :
            n \in DOMAIN checkResults /\ checkResults[n] = CheckNotTested

\* C6: when the composite connectivity probe fails, the sub-probe that
\* failed is recorded Failed under its own probe name.
FailedSubProbeRecorded ==
    cmd = "check" =>
        \A i \in 1..Len(log) :
            (log[i][1] = "composite" /\ log[i][2] # "none") =>
                checkResults[FailedSubProbe(log[i][2])] = CheckFailed

\* C10: the definition the check imports into the destination is in halted
\* form, never one that is declared running.
CheckImportsHalted ==
    (cmd = "check" /\ imported # NoDef) => ~DeclaredRunning(imported)

\* C7: init started with a valid configuration on a fully provisioned state,
\* with no command failing for an outside reason, returns success and leaves
\* the state fully provisioned, so that a second init succeeds as well.
InitOnProvisionedSucceeds ==
    (cmd = "init" /\ Validate(cfg) = Nil /\ atStart.provisioned
       /\ faults = atStart.faults) =>
        /\ pc # "fail"
        /\ pc = "idle" => (result = "ok" /\ FullyProvisioned)

SecondInitSucceeded ==
    /\ cmd = "init" /\ pc = "idle" /\ result = "ok"
    /\ atStart.provisioned
    /\ atStart.prev
    /\ faults = 0

\* C8: when the destination VM exists as init starts, init exports, patches
\* and imports nothing and the destination VM's definition stays as it was.
InitLeavesExistingDestVM ==
    (cmd = "init" /\ atStart.dst # NoDef) =>
        /\ exported = NoDef /\ vmDef = NoDef /\ imported = NoDef
        /\ dstDef = atStart.dst

InitDoneWithExistingDestVM ==
    /\ cmd = "init" /\ pc = "idle" /\ result = "ok"
    /\ atStart.dst # NoDef
    /\ dstDef = atStart.dst

\* C9: the definition init hands to the import is in halted form:
\* runStrategy Halted when the exported definition exposes runStrategy,
\* otherwise running false; it is never one that is declared running.
InitImportsHaltedForm ==
    (cmd = "init" /\ imported # NoDef) =>
        /\ exported.runStrategy # "absent" => imported.runStrategy = "Halted"
        /\ exported.runStrategy = "absent" => imported.running = "false"
        /\ ~DeclaredRunning(imported)

\* The step of runInit a trace entry belongs to.
InitStep(op) ==
    CASE op = "src_vm" -> 1
      [] op \in {"dst_vm", "export", "halt", "import", "dst_status"} -> 2
      [] op = "src_pod" -> 3
      [] op = "keys" -> 4
      [] op \in {"dst_pod", "svc"} -> 5
      [] op = "auth" -> 6
      [] op \in {"sync", "info", "composite", "mount", "verify", "copy"} -> 7
      [] OTHER -> 8

\* Trace values that say the command of the entry failed.
FailureArgs ==
    {"err", "timeout", "tcp", "write", "sshfs", "sshfs-missing", "cmd-failed",
     "no-marker"}

\* C11: init attempts its steps in the order source VM lookup, destination
\* VM creation, source replicator, SSH keys, destination replicator and
\* service, destination authorization, initial sync, periodic job; no step is
\* attempted before the one ahead of it, a failed command is the last thing
\* init does and makes it return an error, and the periodic job is installed
\* only after the copy command of the same run returned success.
InitStepsInOrder ==
    cmd = "init" =>
        /\ Len(log) > 0 => InitStep(log[1][1]) = 1
        /\ \A j \in 1..(Len(log) - 1) :
              /\ log[j][2] \notin FailureArgs
              /\ InitStep(log[j + 1][1]) \in
                    {InitStep(log[j][1]), InitStep(log[j][1]) + 1}
        /\ (Len(log) > 0 /\ log[Len(log)][2] \in FailureArgs) =>
              /\ pc \in {"fail", "idle"}
              /\ pc = "idle" => result = "err"
        /\ \A j \in 1..Len(log) :
              log[j] = <<"cron", "ok">> => Earlier("copy", "ok", j)
        /\ (pc = "idle" /\ result = "ok") => log[Len(log)][1] = "cron"

InitInstalledCronAfterCopy ==
    /\ cmd = "init" /\ pc = "idle" /\ result = "ok"
    /\ atStart.dst = NoDef
    /\ Did("copy", "ok") /\ Did("cron", "ok")
    /\ cron = "active"

\* An event of the connectivity check, the mount, its verification or the copy.
IsSyncStep(e) ==
    e[1] \in {"composite", "mount", "verify", "copy"}

\* C12: within one initial sync the copy command is run only after the
\* connectivity check, the mount and the mount verification (the listing
\* shows the content marker) have succeeded, in that order; when one of the
\* three fails the copy is not run.
CopyOnlyAfterVerifiedMount ==
    cmd = "init" =>
        LET steps == SelectSeq(log, IsSyncStep) IN
        \A k \in 1..Len(steps) :
            steps[k][1] = "copy" =>
                /\ k > 3
                /\ steps[k - 3] = <<"composite", "none">>
                /\ steps[k - 2] = <<"mount", "ok">>
                /\ steps[k - 1] = <<"verify", "ok">>

CopiedAfterVerifiedMount ==
    /\ cmd = "init"
    /\ Did("verify", "ok")
    /\ Did("copy", "ok")

\* C13: when a status poll of init or migrate reaches its deadline without
\* having read the expected status, that is the last thing the command does:
\* it goes to its error return, returns an error, and no later step (final
\* job, destination start, cleanup, the rest of init) is executed.
PollTimeoutIsFatal ==
    cmd \in {"init", "migrate", "migrateV1"} =>
        \A j \in 1..Len(log) :
            log[j][2] = "timeout" =>
                /\ j = Len(log)
                /\ pc \in {"fail", "idle"}
                /\ pc = "idle" => result = "err"

MigrateTimedOutWaitingForStop ==
    /\ cmd = "migrate" /\ pc = "idle" /\ result = "err"
    /\ Did("stop_src", "ok")
    /\ Did("src_status", "timeout")
    /\ finalJob = "absent"

\* The command is inside a VM-status polling loop.
Polling ==
    pc \in {"waitStopped", "waitRunning", "initWaitDst", "chkWait",
            "v1WaitStopped", "v1WaitRunning"}

\* C14: every VM-status polling loop terminates, with success once the
\* expected status was read or with an error at its deadline, even when the
\* VM never reaches the expected status.
PollingTerminates ==
    Polling ~> ~Polling

\* C15: once migrate has seen the destination VM Running, every step before
\* that having succeeded, it only has its cleanup left and returns success
\* whichever of the deletes fail.
CleanupFailuresNotFatal ==
    (Migrating /\ Did("dst_status", "Running")) =>
        /\ pc \in {"cleanupSrc", "cleanupDst", "v1Cleanup", "idle"}
        /\ pc = "idle" => result = "ok"

\* migrate returned success although deletes on both sides failed.
MigratedWithLeftovers ==
    /\ cmd = "migrate" /\ pc = "idle" /\ result = "ok"
    /\ Did("dst_status", "Running")
    /\ srcPod # "absent" /\ secret # NoKey /\ dstPod # "absent"

FieldCount(str) ==
    Cardinality({i \in 1..Len(str) :
                   ~IsSpace(str[i]) /\ (i = 1 \/ IsSpace(str[i - 1]))})

\* The configuration is invalid in the claim's terms.
InvalidConfiguration ==
    \/ "" \in {cfg.vmName, cfg.namespace, cfg.srcKubeconfig, cfg.dstKubeconfig}
    \/ cfg.kubeCLI \notin {"oc", "kubectl"}
    \/ cfg.syncTool \notin {"rclone", "rsync"}
    \/ FieldCount(cfg.schedule) # 5

\* C17: with an invalid configuration init and migrate return an error
\* straight away: no step of the command is taken, no command is issued to
\* either cluster and it has changed nothing since it was started.
InvalidConfigFailsFirst ==
    (cmd \in {"init", "migrate", "migrateV1"} /\ InvalidConfiguration) =>
        /\ pc = "idle" /\ result = "err"
        /\ log = <<>>
        /\ dstDef = atStart.dst

InitRejectedMalformedSchedule ==
    /\ cmd = "init" /\ pc = "idle" /\ result = "err"
    /\ FieldCount(cfg.schedule) \notin {0, 5}
    /\ cfg.kubeCLI = "oc" /\ cfg.vmName = "vm"

\* The replicators of this check were set up.
SetupSucceeded ==
    /\ checkResults["Source Pod"] = CheckSuccess
    /\ checkResults["Destination Pod"] = CheckSuccess
    /\ checkResults["SSH Service"] = CheckSuccess

\* C18: a check whose replicator setup succeeded has, when it returns, called
\* the cleanup of the source side and the cleanup of the destination side,
\* however the probes after the setup and the source-side cleanup ended.
CleanupAttemptedOnBothSides ==
    (CheckReturned /\ SetupSucceeded) =>
        /\ \E a \in {"ok", "err"} : Did("cleanup_src", a)
        /\ \E a \in {"ok", "err"} : Did("cleanup_dst", a)

\* Every probe before the Unmount is recorded as a success.
ProbesBeforeUnmountSucceeded ==
    \A name \in DOMAIN checkResults :
        name # "Unmount" => checkResults[name] = CheckSuccess

\* C19: a check in which every probe up to and including the mount
\* verification succeeded and the Unmount failed returns success, with the
\* Unmount recorded as failed.
UnmountFailureNotFatal ==
    (CheckReturned /\ ProbesBeforeUnmountSucceeded /\ Did("unmount", "err")) =>
        /\ result = "ok"
        /\ checkResults["Unmount"] = CheckFailed

CheckSucceededWithFailedUnmount ==
    /\ CheckReturned /\ result = "ok"
    /\ ProbesBeforeUnmountSucceeded
    /\ Did("unmount", "err") /\ checkResults["Unmount"] = CheckFailed

\* The composite probe of this check failed with an error text that holds the
\* tool-not-available marker and neither of the other two.
CompositeMatchedOnlySshfsMarker ==
    \E outcome \in SubProbeOutcomes :
        /\ Did("composite", outcome)
        /\ LET err == ProviderCheckConnectivity(outcome).err IN
           /\ err # NoError
           /\ Contains(err, SshfsMarker)
           /\ ~Contains(err, TcpMarker)
           /\ ~Contains(err, WriteMarker)

\* C20: after a composite probe whose error text matches only the
\* tool-not-available marker the check has recorded TCP Connection and Write
\* Permissions as Success, SSHFS Available as Failed, and Mount, Mount
\* Verification and Unmount as NotTested.
OnlySshfsMarkerResults ==
    (cmd = "check" /\ CompositeMatchedOnlySshfsMarker) =>
        /\ checkResults["TCP Connection"] = CheckSuccess
        /\ checkResults["Write Permissions"] = CheckSuccess
        /\ checkResults["SSHFS Available"] = CheckFailed
        /\ \A name \in {"Mount", "Mount Verification", "Unmount"} :
              checkResults[name] = CheckNotTested

CheckReturnedWithoutSshfs ==
    /\ CheckReturned /\ result = "err"
    /\ Did("composite", "sshfs-missing")
    /\ checkResults["SSHFS Available"] = CheckFailed
    /\ checkResults["TCP Connection"] = CheckSuccess
    /\ checkResults["Mount"] = CheckNotTested

\* C21: a GenerateKeys called while the source replicator holds a complete
\* keypair leaves that keypair on the pod: it neither removes nor regenerates
\* it.
ExistingKeypairKept ==
    [][(pc \in {"initKeys", "chkKeys"} /\ srcPod = "Running" /\ keys # NoKey)
          => keys' = keys]_vars

\* The running command generated or reused the keypair, put it in the secret
\* and authorized it on the destination replicator.
DistributedInThisRun ==
    /\ keys # NoKey /\ Did("keys", "ok")
    /\ \/ Did("auth", "ok")
       \/ /\ cmd = "check" /\ "SSH Auth" \in DOMAIN checkResults
          /\ checkResults["SSH Auth"] = CheckSuccess

\* C22: once the running command has distributed the keypair, no later step
\* of it changes the keypair on the source replicator; the only step that
\* touches it is the cleanup that deletes the replicator pod itself.
KeypairStableOnceDistributed ==
    [][DistributedInThisRun => (keys' = keys \/ srcPod' = "absent")]_vars

InitCopiedWithDistributedKeys ==
    /\ cmd = "init" /\ atStart.provisioned = FALSE
    /\ Did("keys", "ok") /\ Did("auth", "ok") /\ Did("copy", "ok")
    /\ keys # NoKey /\ secret = keys /\ authKeys = keys

\* Number of checks that fail before the first that succeeds.
LeadingFailures(outcomes) ==
    Cardinality({k \in DOMAIN outcomes : \A j \in 1..k : ~outcomes[j]})

\* The loop, whatever the checks answer: at most 3 checks, none after the
\* first that succeeds, and sleeps of 5 s and then 10 s between them.
VerifyLoopAsSpecified ==
    \A outcomes \in [1..3 -> BOOLEAN] :
        LET r == VerifySecret(0, retryDelay, outcomes, NoChecks)
            misses == LeadingFailures(outcomes)
        IN /\ r.checks = IF misses = 3 THEN 3 ELSE misses + 1
           /\ r.seen = (misses < 3)
           /\ r.slept = SubSeq(<<5, 10>>, 1, r.checks - 1)

\* C23: one GenerateKeys call checks for the secret at most 3 times, stops at
\* the first check that succeeds, and sleeps 5 s after the first failed check
\* and 10 s after the second.
SecretVerificationBounded ==
    /\ VerifyLoopAsSpecified
    /\ secretChecks.checks <= 3
    /\ secretChecks.seen => secretChecks.checks >= 1
    /\ secretChecks.checks >= 1 =>
          secretChecks.slept = SubSeq(<<5, 10>>, 1, secretChecks.checks - 1)
    /\ (secretChecks.checks \in 1..2) => secretChecks.seen

SecretSeenAtThirdCheck ==
    /\ Did("keys", "ok")
    /\ secretChecks = [checks |-> 3, slept |-> <<5, 10>>, seen |-> TRUE]

\* C24: a GenerateKeys that applied the secret without error and whose every
\* verification check failed has returned success.
UnverifiedSecretNotFatal ==
    (secretChecks.checks = 3 /\ ~secretChecks.seen) => Did("keys", "ok")

InitWentOnWithUnverifiedSecret ==
    /\ cmd = "init"
    /\ secretChecks.checks = 3 /\ ~secretChecks.seen
    /\ Did("keys", "ok") /\ Did("auth", "ok")

\* SetupCronJob of the running command could not measure the disk usage, and
\* the fallback to the storage claim failed too: the claim could not be read
\* or its size gave no profile.
SizingFellThrough ==
    Did("cron", "ok") /\ sizing.source \in {"default", "unparsed"}

\* C25: when neither the usage measurement nor the storage-claim fallback
\* gives a profile, the cron job is installed with the fixed default profile:
\* 1 CPU, 2Gi.
DefaultsWhenSizingFails ==
    SizingFellThrough =>
        /\ sizing.resources.cpuLimit = <<"1">>
        /\ sizing.resources.memoryLimit = <<"2", "G", "i">>

RECURSIVE Number(_)
Number(str) ==
    IF str = <<>> THEN 0
    ELSE Number(SubSeq(str, 1, Len(str) - 1)) * 10
         + (CHOOSE d \in 0..9 : str[Len(str)] = Digit(d))

\* A CPU quantity ("2", "1.4") in tenths of a core.
CoreTenths(str) ==
    IF \E i \in 1..Len(str) : str[i] = "."
    THEN LET dot == CHOOSE i \in 1..Len(str) : str[i] = "." IN
         Number(SubSeq(str, 1, dot - 1)) * 10 + Number(SubSeq(str, dot + 1, Len(str)))
    ELSE Number(str) * 10

\* A memory quantity ("4Gi") in Gi.
GiOf(str) ==
    Number(SubSeq(str, 1, Len(str) - 2))

\* The requests of a profile are 70% of its limits: the CPU request to one
\* decimal, the memory request rounded up to whole Gi.
RequestsAre70Percent(r) ==
    /\ 10 * CoreTenths(r.cpuRequest) = 7 * CoreTenths(r.cpuLimit)
    /\ 10 * GiOf(r.memoryRequest) >= 7 * GiOf(r.memoryLimit)
    /\ 10 * (GiOf(r.memoryRequest) - 1) < 7 * GiOf(r.memoryLimit)

\* C27: every profile SetupCronJob gets from the calculator, from the
\* measured usage, from the storage claim's size or as the fixed defaults, has
\* its CPU request at 70% of the CPU limit and its memory request at 70% of
\* the memory limit, rounded up.
EveryProfileRequests70Percent ==
    sizing.source \in {"usage", "pvc", "default"} =>
        RequestsAre70Percent(sizing.resources)

\* k whole units are enough for bytes * num / den GiB.
Covers(k, bytes, num, den) ==
    BytesLeq(Bytes(bytes.mib * num, bytes.rest * num), Bytes(k * den * 1024, 0))

\* ceil(bytes * num / den GiB): the least whole number that is enough.
LeastCover(bytes, num, den) ==
    CHOOSE k \in 0..(MaxGiB + 2) :
        Covers(k, bytes, num, den) /\ (k > 0 => ~Covers(k - 1, bytes, num, den))

\* max(usedBytes / 2^30, 1), as bytes
UsedGB(usedBytes) ==
    IF BytesLeq(usedBytes, Bytes(1024, 0)) THEN Bytes(1024, 0) ELSE usedBytes

\* The limits of the profile in `sizing` are the specified functions of its
\* usage, and so lie within 1..4 cores and 2..8 Gi.
LimitsAsSpecified ==
    sizing.source = "usage" =>
        LET usedGB == UsedGB(sizing.usedBytes)
            cores == CoreTenths(sizing.resources.cpuLimit)
            mem == GiOf(sizing.resources.memoryLimit)
        IN /\ cores = 10 * Clamp(LeastCover(usedGB, 1, 5), 1, 4)
           /\ mem = Clamp(LeastCover(usedGB, 3, 10), 2, 8)
           /\ cores \in {10, 20, 30, 40}
           /\ mem \in 2..8

\* From one calculation to the next with at least the same usage the limits
\* do not decrease, and two usages of at most 1 GiB give one profile.
LimitsGrowWithUsage ==
    (sizing.source = "usage" /\ sizing'.source = "usage"
       /\ BytesLeq(sizing.usedBytes, sizing'.usedBytes)) =>
        /\ CoreTenths(sizing'.resources.cpuLimit) >= CoreTenths(sizing.resources.cpuLimit)
        /\ GiOf(sizing'.resources.memoryLimit) >= GiOf(sizing.resources.memoryLimit)
        /\ BytesLeq(sizing'.usedBytes, Bytes(1024, 0)) =>
               sizing'.resources = sizing.resources

\* C28: for every usedBytes >= 0 the calculated profile has cpuLimit =
\* clamp(ceil(usedGB / 5), 1, 4) cores and memoryLimit =
\* clamp(ceil(usedGB * 0.3), 2, 8) Gi with usedGB = max(usedBytes / 2^30, 1);
\* so the limits lie within their clamps, all inputs of at most 1 GiB give
\* the same profile, and the limits never decrease as usedBytes grows.
CalculatedLimitsAsSpecified ==
    []LimitsAsSpecified /\ [][LimitsGrowWithUsage]_vars

\* 12 GiB and one byte were sized at 3 cores and 4 Gi.
SizedJustAboveTwelveGiB ==
    /\ sizing.source = "usage"
    /\ sizing.usedBytes = Bytes(12 * 1024, 1)
    /\ sizing.resources.cpuLimit = <<"3", ".", "0">>
    /\ sizing.resources.memoryLimit = <<"4", "G", "i">>

\* The step is a call of CleanupMigrationResources.
CleanupCall ==
    pc \in {"cleanupSrc", "cleanupDst"} /\ Len(log') > Len(log)

\* The resources the call issued a delete for.
DeletesIssued ==
    {log'[i][2] : i \in {j \in (Len(log) + 1)..Len(log') :
                            log'[j][1] \in {"delete", "delete_err"}}}

\* C29: CleanupMigrationResources attempts to delete every resource of its
\* set that exists when it is called, also after a delete that failed, issues
\* no delete for a resource that is absent, and returns an error exactly when
\* at least one delete failed.
CleanupDeletesWhatExists ==
    [][CleanupCall =>
        /\ DeletesIssued = CleanupSet(pc = "cleanupDst")
        /\ log'[Len(log')] = <<"cleaned", "err">>
             <=> \E i \in (Len(log) + 1)..Len(log') : log'[i][1] = "delete_err"]_vars

\* C30: the wait for the final replication job's completion has no deadline:
\* migrate leaves the wait only when the job is complete or the wait command
\* broke, never because of the time that has passed.
FinalWaitHasNoDeadline ==
    [][(pc \in {"finalWait", "v1FinalWait"} /\ pc' # pc) =>
          (finalJob = "complete" \/ faults' > faults)]_vars

\* The step is migrate's start request for the destination VM, and it succeeds.
DestinationStartIssued ==
    /\ Migrating
    /\ pc \in {"startVM", "v1StartVM"}
    /\ Len(log') = Len(log) + 1
    /\ log'[Len(log')] = <<"start_dst", "ok">>

\* C31: migrate starts the destination VM only when the periodic replication
\* job can start no more runs, because it was suspended or is gone; the
\* destination VM is never started while the periodic job is active.
DestinationStartedOnlyWithJobStopped ==
    [][DestinationStartIssued => cron # "active"]_vars

\* C32: during migrate no run of the periodic replication job executes at the
\* same time as the final replication job.
NoPeriodicRunDuringFinalJob ==
    (Migrating /\ finalJob = "running") => ~periodic

\* The source VM or the destination VM did not exist when the run started.
VMMissingAtStart ==
    atStart.src = "Absent" \/ atStart.dst = NoDef

\* C33: when the source VM or the destination VM does not exist as migrate
\* (the cluster-client runMigrate) is invoked, migrate returns an error, and
\* it has by then neither suspended the periodic job, nor asked the source VM
\* to stop, nor created the final job.
MissingVMAbortsMigrate ==
    (cmd = "migrate" /\ VMMissingAtStart) =>
        /\ \A i \in 1..Len(log) :
              log[i][1] \notin {"suspend", "stop_src", "final_create"}
        /\ pc \in {"finalCheck", "fail", "idle"}
        /\ pc = "idle" => result = "err"
        /\ cron = "active" => ~Did("suspend", "ok")

\* migrate returned its error for a destination VM that does not exist, with
\* the source VM present.
MigrateRefusedMissingDestination ==
    /\ cmd = "migrate" /\ pc = "idle" /\ result = "err"
    /\ atStart.dst = NoDef /\ atStart.src # "Absent"
    /\ faults = atStart.faults
    /\ log = <<>>

\* C34: a Feasibility Check run leaves what existed before it as it was: the
\* periodic job, the SSH key secret, the replicator pods and the service that
\* an earlier init provisioned are still there when the check returns, and a
\* destination VM that already existed is declared as it was.
CheckLeavesExistingResources ==
    (cmd = "check" /\ pc = "idle" /\ atStart.provisioned) =>
        /\ FullyProvisioned
        /\ dstDef = atStart.dst

\* C35: init goes past a replicator step (the source one to the key
\* generation, the destination one to the service) only with that pod Running
\* and ready, whether it skipped the creation or waited for the pod it made; a
\* pod that exists but is not Running is not taken as provisioned.
InitPassesOnlyRunningReplicator ==
    [][/\ (pc = "initSrcPod" \/ pc = "initSrcPodWait") /\ pc' = "initKeys"
          => srcPod = "Running"
       /\ (pc = "initDstPod" \/ pc = "initDstPodWait") /\ pc' = "initSvc"
          => dstPod = "Running"]_vars

\* The step of a check creates a replicator pod that was not there.
CheckCreatesPod ==
    /\ cmd = "check"
    /\ \/ srcPod = "absent" /\ srcPod' # "absent"
       \/ dstPod = "absent" /\ dstPod' # "absent"

\* C36: a check that returns has attempted the cleanup of every temporary pod
\* and service it created, also when the replicator setup fails after it has
\* created some of them: a step that creates a pod and ends the run has made
\* a cleanup attempt.
CheckCleansWhatItCreated ==
    [][(CheckCreatesPod /\ pc' = "idle") =>
          \E i \in 1..Len(log') : log'[i][1] \in {"cleanup_src", "cleanup_dst"}]_vars

\* Every probe but the Unmount has an entry, and it is Success.
AllButUnmountSucceeded ==
    \A name \in ExpectedChecks \ {"Unmount"} :
        name \in DOMAIN checkResults /\ checkResults[name] = CheckSuccess

\* C37: a check returns success exactly when every probe other than the
\* Unmount is recorded Success at the return; when it returns an error, at
\* least one probe is recorded Failed or NotTested.
SuccessIffProbesSucceeded ==
    CheckReturned =>
        /\ result = "ok" <=> AllButUnmountSucceeded
        /\ result = "err" =>
              \E name \in DOMAIN checkResults :
                  checkResults[name] \in {CheckFailed, CheckNotTested}

\* A check returned an error for a failed mount verification: the probes
\* before it are Success, the verification is Failed, the Unmount NotTested.
CheckFailedAtMountVerification ==
    /\ CheckReturned /\ result = "err"
    /\ \A name \in ExpectedChecks \ {"Mount Verification", "Unmount"} :
          checkResults[name] = CheckSuccess
    /\ checkResults["Mount Verification"] = CheckFailed
    /\ checkResults["Unmount"] = CheckNotTested

\* C38: when GenerateKeys returns, no local temporary file that the call wrote
\* holds the private key any more: after a call that succeeded, and so wrote
\* /tmp/<vm>-id_rsa, that file is gone.
NoPrivateKeyFileLeft ==
    [][(pc \in {"initKeys", "chkKeys"} /\ pc' \in {"initDstPod", "chkAuth"})
          => privateKeyFile' = NoKey]_vars

\* C39: an init with dry-run set issues no destination lookup, connectivity
\* check, mount, verification or copy and applies no cron job: it does no
\* initial copy and installs no periodic job, so on clusters that had none
\* there is none afterwards; the replicator pods and the service are still
\* set up when it succeeds.
DryRunSkipsSyncAndCronJob ==
    (cmd = "init" /\ dryRun) =>
        /\ \A i \in 1..Len(log) :
              /\ log[i][1] \notin {"info", "composite", "mount", "verify", "copy"}
              /\ log[i][1] = "cron" => log[i][2] = "skipped"
        /\ sizing = NoSizing
        /\ atStart.dst = NoDef => (cron = "absent" /\ ~copied /\ ~mounted)
        /\ (pc = "idle" /\ result = "ok") =>
              /\ Did("sync", "skipped") /\ Did("cron", "skipped")
              /\ srcPod # "absent" /\ dstPod # "absent" /\ dstSvc

\* A dry-run init on bare clusters succeeded: pods, service and keys are
\* there, no copy was made and no cron job exists.
DryRunInitSucceededOnBareClusters ==
    /\ cmd = "init" /\ dryRun /\ pc = "idle" /\ result = "ok"
    /\ atStart.dst = NoDef
    /\ srcPod = "Running" /\ dstPod = "Running" /\ dstSvc /\ authKeys = keys
    /\ cron = "absent" /\ ~copied

====
